---- MODULE Spec2Model ----
(***************************************************************************)
(* Shopping-cart domain core: value objects (Money, Quantity, ProductId,   *)
(* SessionId), the CartItem entity, the Cart aggregate and CheckoutResult. *)
(*                                                                         *)
(* Conventions of the translation                                          *)
(*  - a JS string is a sequence of one-character strings, so that trim()   *)
(*    and the identifier patterns are computed and not assumed;            *)
(*  - a JS number given by a caller is a record [whole, frac]: frac = TRUE *)
(*    stands for whole + 0.5, the non-integer case of Number.isInteger;    *)
(*    a validated amount or quantity is a plain integer;                   *)
(*  - a function that throws returns [err |-> tag]; one that returns       *)
(*    gives [err |-> "none", val |-> value].  The tags name the thrown     *)
(*    messages (see ErrorTags);                                            *)
(*  - a Date is an integer clock reading; one synchronous call reads one   *)
(*    clock value.                                                         *)
(*                                                                         *)
(* Around the core: the object graph the mutators build (heap, ref), and   *)
(* the in-memory repositories with the use cases (storage, prev) and the  *)
(* executions in progress, suspended at their awaits (tasks).             *)
(***************************************************************************)
EXTENDS Integers, Sequences, FiniteSets, TLC

VARIABLES cart, now, uuids, steps, last, heap, ref, storage, prev, tasks

vars == <<cart, now, uuids, steps, last, heap, ref, storage, prev, tasks>>

\* the object graph and the repository, for the specifications that use them
others == <<heap, ref, storage, prev, tasks>>

----------------------------------------------------------------------------
(* Bounds of the exploration *)

MaxSteps == 2

MaxClock == 1

----------------------------------------------------------------------------
(* Results *)

Ok(v) == [err |-> "none", val |-> v]

Err(e) == [err |-> e]

IsOk(r) == r.err = "none"

ErrorTags ==
    { "CartNotActive", "MaxItemsExceeded", "ItemNotFound", "NotInteger",
      "BelowMinimum", "AboveMaximum", "CartAlreadyCheckedOut", "EmptyCart",
      "EmptyName", "Empty", "InvalidFormat", "InvalidAmount",
      "InvalidQuantity", "CurrencyMismatch", "CartNotCheckedOut",
      "NegativeResult", "NameTooLong", "EmptySku",
      "ProductNotFoundError", "ProductOutOfStockError", "CartNotFoundError",
      "ItemNotFoundError", "CartAlreadyCheckedOutError", "EmptyCartError" }

----------------------------------------------------------------------------
(* JS numbers and strings *)

Num(w, f) == [whole |-> w, frac |-> f]

IntNum(n) == Num(n, FALSE)

NumberIsInteger(x) == ~x.frac

\* x < n for an integer n: whole + 0.5 < n iff whole < n
NumLess(x, n) == x.whole < n

\* x > n for an integer n
NumGreater(x, n) == x.whole > n \/ (x.whole = n /\ x.frac)

Whitespace == {" ", "\t"}

Letters ==
    { "a", "b", "c", "d", "e", "f", "g", "h", "i", "j", "k", "l", "m",
      "n", "o", "p", "q", "r", "s", "t", "u", "v", "w", "x", "y", "z" }

Digits == { "0", "1", "2", "3", "4", "5", "6", "7", "8", "9" }

RECURSIVE TrimStart(_)
TrimStart(s) ==
    IF s # <<>> /\ Head(s) \in Whitespace THEN TrimStart(Tail(s)) ELSE s

RECURSIVE TrimEnd(_)
TrimEnd(s) ==
    IF s # <<>> /\ s[Len(s)] \in Whitespace
    THEN TrimEnd(SubSeq(s, 1, Len(s) - 1))
    ELSE s

Trim(s) == TrimEnd(TrimStart(s))

----------------------------------------------------------------------------
(* ProductId, SessionId *)

MaxProductIdLen == 50

MaxSessionIdLen == 100

PRODUCT_ID_PATTERN(s) ==
    /\ Len(s) >= 1
    /\ Len(s) <= MaxProductIdLen
    /\ \A i \in 1..Len(s) : s[i] \in Letters \cup Digits \cup {"-", "_"}

SESSION_ID_PATTERN(s) ==
    /\ Len(s) >= 1
    /\ Len(s) <= MaxSessionIdLen
    /\ \A i \in 1..Len(s) : s[i] \in Letters \cup Digits \cup {"-"}

createProductId(value) ==
    IF value = <<>> \/ Trim(value) = <<>> THEN Err("Empty")
    ELSE IF ~PRODUCT_ID_PATTERN(Trim(value)) THEN Err("InvalidFormat")
    ELSE Ok([value |-> Trim(value)])

createSessionId(value) ==
    IF value = <<>> \/ Trim(value) = <<>> THEN Err("Empty")
    ELSE IF ~SESSION_ID_PATTERN(Trim(value)) THEN Err("InvalidFormat")
    ELSE Ok([value |-> Trim(value)])

----------------------------------------------------------------------------
(* Quantity *)

MAX_QUANTITY == 99

MIN_QUANTITY == 1

createQuantity_NoMaximum(value) ==
    IF ~NumberIsInteger(value) THEN Err("NotInteger")
    ELSE IF NumLess(value, MIN_QUANTITY) THEN Err("BelowMinimum")
    ELSE Ok([value |-> value.whole])

createQuantity(value) ==
    IF ~NumberIsInteger(value) THEN Err("NotInteger")
    ELSE IF NumLess(value, MIN_QUANTITY) THEN Err("BelowMinimum")
    ELSE IF NumGreater(value, MAX_QUANTITY) THEN Err("AboveMaximum")
    ELSE Ok([value |-> value.whole])

addQuantity(a, b) ==
    IF a.value + b.value > MAX_QUANTITY THEN Err("AboveMaximum")
    ELSE createQuantity(IntNum(a.value + b.value))

----------------------------------------------------------------------------
(* Money *)

Currencies == {"USD", "EUR", "GBP"}

createMoney(cents, currency) ==
    IF ~NumberIsInteger(cents) THEN Err("InvalidAmount")
    ELSE IF NumLess(cents, 0) THEN Err("InvalidAmount")
    ELSE Ok([amount |-> cents.whole, currency |-> currency])

addMoney(a, b) ==
    IF a.currency # b.currency THEN Err("CurrencyMismatch")
    ELSE createMoney(IntNum(a.amount + b.amount), a.currency)

subtractMoney_Strict(a, b) ==
    IF a.currency # b.currency THEN Err("CurrencyMismatch")
    ELSE IF a.amount <= b.amount THEN Err("NegativeResult")
    ELSE createMoney(IntNum(a.amount - b.amount), a.currency)

subtractMoney(a, b) ==
    IF a.currency # b.currency THEN Err("CurrencyMismatch")
    ELSE IF a.amount < b.amount THEN Err("NegativeResult")
    ELSE createMoney(IntNum(a.amount - b.amount), a.currency)

multiplyMoney(money, quantity) ==
    IF NumLess(quantity, 0) THEN Err("InvalidQuantity")
    ELSE IF ~NumberIsInteger(quantity) THEN Err("InvalidQuantity")
    ELSE createMoney(IntNum(money.amount * quantity.whole), money.currency)

zeroMoney(currency) == createMoney(IntNum(0), currency)

----------------------------------------------------------------------------
(* CartItem *)

Undefined == <<"undefined", 0>>

\* uuidv4(): the n-th generated token; never equal to a caller-supplied id
uuidv4(n) == <<"uuid", n>>

createCartItem(input, date, fresh) ==
    IF input.productName = <<>> \/ Trim(input.productName) = <<>>
    THEN Err("EmptyName")
    ELSE IF ~IsOk(createProductId(input.productId))
    THEN createProductId(input.productId)
    ELSE IF ~IsOk(createMoney(input.unitPriceInCents,
                  IF input.currency = "undefined" THEN "USD" ELSE input.currency))
    THEN createMoney(input.unitPriceInCents,
                  IF input.currency = "undefined" THEN "USD" ELSE input.currency)
    ELSE IF ~IsOk(createQuantity(input.quantity))
    THEN createQuantity(input.quantity)
    ELSE Ok([ itemId      |-> IF input.itemId = Undefined THEN fresh ELSE input.itemId,
              productId   |-> createProductId(input.productId).val,
              productName |-> Trim(input.productName),
              unitPrice   |-> createMoney(input.unitPriceInCents,
                                 IF input.currency = "undefined" THEN "USD"
                                 ELSE input.currency).val,
              quantity    |-> createQuantity(input.quantity).val,
              addedAt     |-> date ])

updateCartItemQuantity_NewIdentity(item, newQuantity) ==
    [item EXCEPT !.quantity = newQuantity, !.itemId = Undefined]

updateCartItemQuantity(item, newQuantity) ==
    [item EXCEPT !.quantity = newQuantity]

increaseCartItemQuantity(item, additionalQuantity) ==
    IF ~IsOk(addQuantity(item.quantity, additionalQuantity))
    THEN addQuantity(item.quantity, additionalQuantity)
    ELSE Ok(updateCartItemQuantity(item,
               addQuantity(item.quantity, additionalQuantity).val))

calculateLineTotal_UnitPrice(item) == multiplyMoney(item.unitPrice, IntNum(1))

calculateLineTotal(item) ==
    multiplyMoney(item.unitPrice, IntNum(item.quantity.value))

----------------------------------------------------------------------------
(* Cart *)

MAX_UNIQUE_ITEMS == 20

CartStatus == {"active", "checked_out", "abandoned"}

findIndexByProductId_None(items, productId) == 0

\* cart.items.findIndex(item => item.productId.value === productId),
\* 1-based; 0 stands for JS's -1
findIndexByProductId(items, productId) ==
    IF \E i \in 1..Len(items) : items[i].productId.value = productId
    THEN CHOOSE i \in 1..Len(items) :
            /\ items[i].productId.value = productId
            /\ \A j \in 1..(i - 1) : items[j].productId.value # productId
    ELSE 0

\* cart.items.findIndex(item => item.itemId === itemId)
findIndexByItemId(items, itemId) ==
    IF \E i \in 1..Len(items) : items[i].itemId = itemId
    THEN CHOOSE i \in 1..Len(items) :
            /\ items[i].itemId = itemId
            /\ \A j \in 1..(i - 1) : items[j].itemId # itemId
    ELSE 0

\* cart.items.filter(item => item.itemId !== itemId)
RECURSIVE filterOutItemId(_, _)
filterOutItemId(items, itemId) ==
    IF items = <<>> THEN <<>>
    ELSE IF Head(items).itemId # itemId
    THEN <<Head(items)>> \o filterOutItemId(Tail(items), itemId)
    ELSE filterOutItemId(Tail(items), itemId)

createCart(sessionId, currency, date) ==
    IF ~IsOk(createSessionId(sessionId)) THEN createSessionId(sessionId)
    ELSE Ok([ sessionId |-> createSessionId(sessionId).val,
              items     |-> <<>>,
              status    |-> "active",
              createdAt |-> date,
              updatedAt |-> date,
              currency  |-> currency ])

reconstitute(data) ==
    IF ~IsOk(createSessionId(data.sessionId)) THEN createSessionId(data.sessionId)
    ELSE Ok([ sessionId |-> createSessionId(data.sessionId).val,
              items     |-> data.items,
              status    |-> data.status,
              createdAt |-> data.createdAt,
              updatedAt |-> data.updatedAt,
              currency  |-> data.currency ])

atMaxItems_OffByOne(c) == Len(c.items) > MAX_UNIQUE_ITEMS

\* the size test of addItemToCart
atMaxItems(c) == Len(c.items) >= MAX_UNIQUE_ITEMS

assertCartIsActive_NoAbandoned(c) ==
    IF c.status = "checked_out" THEN Err("CartNotActive") ELSE Ok(TRUE)

assertCartIsActive_NoCheckedOut(c) ==
    IF c.status = "abandoned" THEN Err("CartNotActive") ELSE Ok(TRUE)

assertCartIsActive(c) ==
    IF c.status = "checked_out" THEN Err("CartNotActive")
    ELSE IF c.status = "abandoned" THEN Err("CartNotActive")
    ELSE Ok(TRUE)

inputInCartCurrency_AsGiven(c, input) == input

\* {...input, currency: cart.currency}
inputInCartCurrency(c, input) == [input EXCEPT !.currency = c.currency]

addItemToCart(c, input, date, fresh) ==
    LET existingItemIndex ==
            findIndexByProductId(c.items, input.productId)
        additionalQuantity == createQuantity(input.quantity)
        updatedItem ==
            increaseCartItemQuantity(c.items[existingItemIndex], additionalQuantity.val)
        newItem == createCartItem(inputInCartCurrency(c, input), date, fresh)
    IN  IF ~IsOk(assertCartIsActive(c)) THEN assertCartIsActive(c)
        ELSE IF existingItemIndex >= 1
        THEN IF ~IsOk(additionalQuantity) THEN additionalQuantity
             ELSE IF ~IsOk(updatedItem) THEN updatedItem
             ELSE Ok([c EXCEPT
                        !.items = [c.items EXCEPT ![existingItemIndex] = updatedItem.val],
                        !.updatedAt = date])
        ELSE IF atMaxItems(c) THEN Err("MaxItemsExceeded")
        ELSE IF ~IsOk(newItem) THEN newItem
        ELSE Ok([c EXCEPT !.items = Append(c.items, newItem.val),
                          !.updatedAt = date])

removeItemFromCart(c, itemId, date) ==
    LET itemIndex == findIndexByItemId(c.items, itemId)
    IN  IF ~IsOk(assertCartIsActive(c)) THEN assertCartIsActive(c)
        ELSE IF itemIndex = 0 THEN Err("ItemNotFound")
        ELSE Ok([c EXCEPT
                   !.items = filterOutItemId(c.items, itemId),
                   !.updatedAt = date])

updateItemQuantity_QuantityFirst(c, itemId, quantity, date) ==
    LET itemIndex == findIndexByItemId(c.items, itemId)
        newQuantity == createQuantity(quantity)
    IN  IF ~IsOk(assertCartIsActive(c)) THEN assertCartIsActive(c)
        ELSE IF ~IsOk(newQuantity) THEN newQuantity
        ELSE IF itemIndex = 0 THEN Err("ItemNotFound")
        ELSE Ok([c EXCEPT
                   !.items = [c.items EXCEPT
                                ![itemIndex] = [c.items[itemIndex] EXCEPT
                                                  !.quantity = newQuantity.val]],
                   !.updatedAt = date])

updateItemQuantity(c, itemId, quantity, date) ==
    LET itemIndex == findIndexByItemId(c.items, itemId)
        newQuantity == createQuantity(quantity)
    IN  IF ~IsOk(assertCartIsActive(c)) THEN assertCartIsActive(c)
        ELSE IF itemIndex = 0 THEN Err("ItemNotFound")
        ELSE IF ~IsOk(newQuantity) THEN newQuantity
        ELSE Ok([c EXCEPT
                   !.items = [c.items EXCEPT
                                ![itemIndex] = [c.items[itemIndex] EXCEPT
                                                  !.quantity = newQuantity.val]],
                   !.updatedAt = date])

\* Array.prototype.reduce over the items with addMoney; a throwing addMoney
\* or calculateLineTotal aborts the reduction
RECURSIVE ReduceTotal(_, _)
ReduceTotal(items, total) ==
    IF items = <<>> THEN total
    ELSE IF ~IsOk(total) THEN total
    ELSE IF ~IsOk(calculateLineTotal(Head(items))) THEN calculateLineTotal(Head(items))
    ELSE ReduceTotal(Tail(items),
                     addMoney(total.val, calculateLineTotal(Head(items)).val))

calculateCartTotal(c) == ReduceTotal(c.items, zeroMoney(c.currency))

RECURSIVE ReduceCount(_, _)
ReduceCount(items, count) ==
    IF items = <<>> THEN count
    ELSE ReduceCount(Tail(items), count + Head(items).quantity.value)

getTotalItemCount(c) == ReduceCount(c.items, 0)

isCartEmpty(c) == Len(c.items) = 0

canCheckout_StatusOnly(c) == c.status = "active"

canCheckout(c) == c.status = "active" /\ ~isCartEmpty(c)

checkout_KeepUpdatedAt(c, date) ==
    IF ~canCheckout(c)
    THEN IF c.status # "active" THEN Err("CartAlreadyCheckedOut")
         ELSE IF isCartEmpty(c) THEN Err("EmptyCart")
         ELSE Err("CannotCheckout")
    ELSE Ok([c EXCEPT !.status = "checked_out"])

checkout(c, date) ==
    IF ~canCheckout(c)
    THEN IF c.status # "active" THEN Err("CartAlreadyCheckedOut")
         ELSE IF isCartEmpty(c) THEN Err("EmptyCart")
         ELSE Err("CannotCheckout")
    ELSE Ok([c EXCEPT !.status = "checked_out", !.updatedAt = date])

clearCart(c, date) ==
    IF ~IsOk(assertCartIsActive(c)) THEN assertCartIsActive(c)
    ELSE Ok([c EXCEPT !.items = <<>>, !.updatedAt = date])

----------------------------------------------------------------------------
(* CheckoutResult *)

\* a tax rate is the rational num/den, den > 0
Rate(n, d) == [given |-> TRUE, num |-> n, den |-> d]

\* the taxRate of an input that omits it
NoRate == [given |-> FALSE, num |-> 0, den |-> 1]

MathRound_Truncate(amount, rate) == (amount * rate.num) \div rate.den

\* Math.round(amount * rate): floor(x + 1/2)
MathRound(amount, rate) ==
    (2 * amount * rate.num + rate.den) \div (2 * rate.den)

lineItemOf(item) ==
    [ productId        |-> item.productId.value,
      productName      |-> item.productName,
      quantity         |-> item.quantity.value,
      unitPriceInCents |-> item.unitPrice.amount,
      lineTotalInCents |-> calculateLineTotal(item).val.amount ]

RECURSIVE SumLineTotals(_, _)
SumLineTotals(lineItems, sum) ==
    IF lineItems = <<>> THEN sum
    ELSE SumLineTotals(Tail(lineItems), sum + Head(lineItems).lineTotalInCents)

RECURSIVE SumLineQuantities(_, _)
SumLineQuantities(lineItems, count) ==
    IF lineItems = <<>> THEN count
    ELSE SumLineQuantities(Tail(lineItems), count + Head(lineItems).quantity)

notCheckedOut_ActiveOnly(c) == c.status = "active"

\* the status test of createCheckoutResult
notCheckedOut(c) == c.status # "checked_out"

\* an omitted taxRate defaults to 0
createCheckoutResult(input, date) ==
    LET c == input.cart
        taxRate == IF ~input.taxRate.given THEN Rate(0, 1) ELSE input.taxRate
        lineItems == [i \in 1..Len(c.items) |-> lineItemOf(c.items[i])]
        subtotalAmount == SumLineTotals(lineItems, 0)
        taxAmount == MathRound(subtotalAmount, taxRate)
        totalAmount == subtotalAmount + taxAmount
    IN  IF notCheckedOut(c) THEN Err("CartNotCheckedOut")
        ELSE IF \E i \in 1..Len(c.items) : ~IsOk(calculateLineTotal(c.items[i]))
        THEN calculateLineTotal(c.items[
                 CHOOSE i \in 1..Len(c.items) :
                    /\ ~IsOk(calculateLineTotal(c.items[i]))
                    /\ \A j \in 1..(i - 1) : IsOk(calculateLineTotal(c.items[j]))])
        ELSE Ok([ orderId    |-> input.orderId,
                  sessionId  |-> c.sessionId.value,
                  items      |-> lineItems,
                  subtotal   |-> [amount |-> subtotalAmount, currency |-> c.currency],
                  tax        |-> [amount |-> taxAmount, currency |-> c.currency],
                  total      |-> [amount |-> totalAmount, currency |-> c.currency],
                  itemCount  |-> SumLineQuantities(lineItems, 0),
                  checkoutAt |-> date ])

----------------------------------------------------------------------------
(* Inputs of the operations *)

F == FALSE

T == TRUE

IdAA == <<"a", "a">>

IdAAPadded == <<" ", "a", "a", " ">>

IdZZ == <<"z", "z">>

IdTooLong == [i \in 1..(MaxProductIdLen + 1) |-> "a"]

GoodProductIds == {IdAA, IdAAPadded, IdZZ}

BadProductIds == {<<>>, <<" ">>, <<"a", "!">>, IdTooLong}

GoodQuantities == {Num(2, F), Num(3, F)}

BadQuantities == {Num(0, F), Num(100, F), Num(1, T)}

Quantities == GoodQuantities \cup BadQuantities

Custom == <<"custom", 1>>

Absent == <<"custom", 2>>

GoodPrices == {IntNum(1000), IntNum(500)}

BadPrices == {IntNum(-1), Num(0, T)}

NameA == <<"A">>

BaseInput ==
    [ productId |-> IdZZ, productName |-> NameA, unitPriceInCents |-> IntNum(1000),
      currency |-> "undefined", quantity |-> Num(2, F), itemId |-> Undefined ]

\* every product id with every quantity; a caller-chosen itemId with every
\* product id; the second price; then one field of BaseInput made invalid or
\* unusual at a time, for a product that is in the cart (IdAA after a first
\* add) and for one that is not
AddInputs ==
    [ productId : GoodProductIds, productName : {NameA},
      unitPriceInCents : {IntNum(1000)}, currency : {"undefined"},
      quantity : Quantities, itemId : {Undefined} ]
    \cup { [BaseInput EXCEPT !.productId = p, !.itemId = Custom] : p \in GoodProductIds }
    \cup { [BaseInput EXCEPT !.productId = IdZZ, !.unitPriceInCents = IntNum(500),
                             !.quantity = Num(3, F)],
           [BaseInput EXCEPT !.productId = IdAA, !.unitPriceInCents = IntNum(500)] }
    \cup { [BaseInput EXCEPT !.productId = p] : p \in BadProductIds }
    \cup { [BaseInput EXCEPT !.productId = p, !.productName = n] :
              p \in {IdAA, IdZZ}, n \in {<<" ">>, <<" ", "A", " ">>} }
    \cup { [BaseInput EXCEPT !.productName = <<>>] }
    \cup { [BaseInput EXCEPT !.productId = p, !.unitPriceInCents = c] :
              p \in {IdAA, IdZZ}, c \in BadPrices }
    \cup { [BaseInput EXCEPT !.productId = p, !.currency = "GBP"] : p \in {IdAA, IdZZ} }
    \cup { [BaseInput EXCEPT !.currency = "USD"] }

ItemIdsOf(c) == { c.items[i].itemId : i \in 1..Len(c.items) }

\* the ids a caller can name: those of the first and last item, a
\* caller-chosen id and one that no item has
ItemIdInputs(c) ==
    {Custom, Absent}
    \cup (IF c.items = <<>> THEN {} ELSE {c.items[1].itemId, c.items[Len(c.items)].itemId})

\* updateItemQuantity: every quantity, and the largest one, for the first
\* item; a valid and an invalid quantity for the other ids
UpdateInputs(c) ==
    (IF c.items = <<>> THEN {}
     ELSE [itemId : {c.items[1].itemId}, quantity : Quantities \cup {Num(98, F)}])
    \cup [itemId : ItemIdInputs(c), quantity : {Num(3, F), Num(0, F)}]

TaxRates == {NoRate, Rate(1, 10), Rate(2, 25), Rate(1, 1000), Rate(-1, 1000)}

RawSession == <<" ", "s", "1">>

OrderId == <<"o", "1">>

----------------------------------------------------------------------------
(* State machine: one caller holding a Cart value and replacing it by the  *)
(* value a successful operation returns                                    *)

Record(op, input, r, out) ==
    [op |-> op, in |-> input, err |-> r.err, before |-> cart, out |-> out]

\* no call in progress: the caller has taken the previous outcome
Idle == [op |-> "idle", in |-> <<>>, err |-> "none", before |-> <<>>, out |-> <<>>]

\* steps counts the successful changes of the items; checkout changes the
\* status once and costs nothing
Apply(op, input, r, fresh, cost) ==
    /\ last = Idle
    /\ IsOk(r) => steps + cost <= MaxSteps
    /\ cart' = IF IsOk(r) THEN r.val ELSE cart
    /\ steps' = IF IsOk(r) THEN steps + cost ELSE steps
    /\ uuids' = IF IsOk(r) /\ fresh \in ItemIdsOf(r.val) THEN uuids + 1 ELSE uuids
    /\ last' = Record(op, input, r, <<>>)
    /\ UNCHANGED <<now, others>>

\* no object graph and no repository
Detached ==
    /\ heap = <<>>
    /\ ref = 0
    /\ storage = <<>>
    /\ prev = Idle
    /\ tasks = <<>>

Init ==
    /\ Detached
    /\ cart = createCart(RawSession, "EUR", 0).val
    /\ now = 0
    /\ uuids = 0
    /\ steps = 0
    /\ last = [op |-> "createCart", in |-> <<>>, err |-> "none", before |-> <<>>, out |-> <<>>]

AddItem ==
    \E input \in AddInputs :
        Apply("addItemToCart", input,
              addItemToCart(cart, input, now, uuidv4(uuids + 1)), uuidv4(uuids + 1), 1)

RemoveItem ==
    \E itemId \in ItemIdInputs(cart) :
        Apply("removeItemFromCart", [itemId |-> itemId],
              removeItemFromCart(cart, itemId, now), Undefined, 1)

UpdateQuantity ==
    \E input \in UpdateInputs(cart) :
        Apply("updateItemQuantity", input,
              updateItemQuantity(cart, input.itemId, input.quantity, now), Undefined, 1)

Clear == Apply("clearCart", <<>>, clearCart(cart, now), Undefined, 1)

Checkout == Apply("checkout", <<>>, checkout(cart, now), Undefined, 0)

Totals ==
    /\ last = Idle
    /\ last' = Record("calculateCartTotal", <<>>, calculateCartTotal(cart),
                      [total |-> calculateCartTotal(cart), count |-> getTotalItemCount(cart)])
    /\ UNCHANGED <<cart, now, uuids, steps, others>>

CheckoutResult ==
    \E taxRate \in TaxRates :
        LET input == [orderId |-> OrderId, cart |-> cart, taxRate |-> taxRate]
        IN  /\ last = Idle
            /\ last' = Record("createCheckoutResult", [taxRate |-> taxRate],
                              createCheckoutResult(input, now),
                              createCheckoutResult(input, now))
            /\ UNCHANGED <<cart, now, uuids, steps, others>>

\* the caller takes the outcome of the call
Return ==
    /\ last # Idle
    /\ last' = Idle
    /\ UNCHANGED <<cart, now, uuids, steps, others>>

Tick ==
    /\ last = Idle
    /\ now < MaxClock
    /\ now' = now + 1
    /\ UNCHANGED <<cart, uuids, steps, last, others>>

Next ==
    \/ AddItem
    \/ RemoveItem
    \/ UpdateQuantity
    \/ Clear
    \/ Checkout
    \/ Totals
    \/ CheckoutResult
    \/ Return
    \/ Tick

Spec == Init /\ [][Next]_vars

----------------------------------------------------------------------------
(* The same operations on a cart rebuilt by reconstitute from stored data: *)
(* any status; empty, with one item, and filled to the item limit           *)

Alphabet ==
    << "a", "b", "c", "d", "e", "f", "g", "h", "i", "j", "k", "l", "m",
       "n", "o", "p", "q", "r", "s", "t", "u", "v", "w", "x", "y", "z" >>

PrefillInput(k) ==
    [ productId |-> <<"a", Alphabet[k]>>, productName |-> NameA,
      unitPriceInCents |-> IF k % 2 = 1 THEN IntNum(1000) ELSE IntNum(500),
      currency |-> "undefined",
      quantity |-> IF k % 2 = 1 THEN Num(2, F) ELSE Num(3, F),
      itemId |-> Undefined ]

\* the cart after the first k adds of the fill loop: every add is of a
\* product that is not yet in the cart, so each appends createCartItem's item
Prefill(k) ==
    [ createCart(RawSession, "USD", 0).val EXCEPT
        !.items = [i \in 1..k |->
                     createCartItem([PrefillInput(i) EXCEPT !.currency = "USD"],
                                    0, uuidv4(i)).val] ]

PrefillSizes == {0, 1, MAX_UNIQUE_ITEMS}

InitR ==
    /\ Detached
    /\ \E k \in PrefillSizes, status \in CartStatus :
          /\ cart = reconstitute([ sessionId |-> Prefill(k).sessionId.value,
                                   items     |-> Prefill(k).items,
                                   status    |-> status,
                                   createdAt |-> Prefill(k).createdAt,
                                   updatedAt |-> Prefill(k).updatedAt,
                                   currency  |-> Prefill(k).currency ]).val
          /\ uuids = k
    /\ now = 0
    /\ steps = 0
    /\ last = [op |-> "reconstitute", in |-> <<>>, err |-> "none", before |-> <<>>, out |-> <<>>]

SpecR == InitR /\ [][Next]_vars

----------------------------------------------------------------------------
(* The same operations on a cart in which two items carry one itemId: the  *)
(* cart after two adds of different products with the itemId the caller    *)
(* chose                                                                   *)

InitD ==
    /\ Detached
    /\ cart = addItemToCart(
                  addItemToCart(createCart(RawSession, "EUR", 0).val,
                                [BaseInput EXCEPT !.productId = IdAA, !.itemId = Custom],
                                0, uuidv4(1)).val,
                  [BaseInput EXCEPT !.productId = IdZZ, !.itemId = Custom],
                  0, uuidv4(1)).val
    /\ now = 0
    /\ uuids = 0
    /\ steps = 0
    /\ last = Idle

SpecD == InitD /\ [][Next]_vars

----------------------------------------------------------------------------
(* The Money functions applied to every operand of a bounded range.  The   *)
(* operands of addMoney, subtractMoney and multiplyMoney are Money values  *)
(* that createMoney returned.                                              *)

MaxCents == 3

\* the numbers a caller can pass as cents or as a factor
MoneyNumbers ==
    { IntNum(n) : n \in 0..MaxCents } \cup { IntNum(-1), Num(0, T), Num(-1, T), Num(1, T) }

Moneys ==
    { createMoney(IntNum(n), currency).val : n \in 0..MaxCents, currency \in Currencies }

MoneyCall(op, input, r) ==
    [op |-> op, in |-> input, err |-> r.err, before |-> <<>>, out |-> r]

InitM ==
    /\ Detached
    /\ cart = createCart(RawSession, "USD", 0).val
    /\ now = 0
    /\ uuids = 0
    /\ steps = 0
    /\ last = Idle

CreateMoney ==
    /\ \E cents \in MoneyNumbers, currency \in Currencies :
          last' = MoneyCall("createMoney", [cents |-> cents, currency |-> currency],
                            createMoney(cents, currency))
    /\ UNCHANGED <<cart, now, uuids, steps, others>>

AddMoney ==
    /\ \E a \in Moneys, b \in Moneys :
          last' = MoneyCall("addMoney", [a |-> a, b |-> b], addMoney(a, b))
    /\ UNCHANGED <<cart, now, uuids, steps, others>>

SubtractMoney ==
    /\ \E a \in Moneys, b \in Moneys :
          last' = MoneyCall("subtractMoney", [a |-> a, b |-> b], subtractMoney(a, b))
    /\ UNCHANGED <<cart, now, uuids, steps, others>>

MultiplyMoney ==
    /\ \E money \in Moneys, quantity \in MoneyNumbers :
          last' = MoneyCall("multiplyMoney", [money |-> money, quantity |-> quantity],
                            multiplyMoney(money, quantity))
    /\ UNCHANGED <<cart, now, uuids, steps, others>>

NextM ==
    \/ CreateMoney
    \/ AddMoney
    \/ SubtractMoney
    \/ MultiplyMoney

SpecM == InitM /\ [][NextM]_vars

----------------------------------------------------------------------------
(* The object graph of the mutators.  heap is the sequence of the objects  *)
(* allocated so far and an address is an index into it: a Cart object      *)
(* holds the address of its items array, an array holds the addresses of   *)
(* its CartItem objects; value objects and Dates, which no code writes,    *)
(* stay inside their owner.  ref is the Cart the caller holds.  What a     *)
(* call returns or throws is computed by the operations on values above;   *)
(* the operators here add which objects the call allocates and shares.     *)

\* the Cart value read through address a
valueOf(h, a) ==
    [h[a] EXCEPT !.items = [i \in 1..Len(h[h[a].items].elems) |->
                               h[h[h[a].items].elems[i]]]]

Thrown(h, e) == [err |-> e, heap |-> h, addr |-> 0]

Returned(h, a) == [err |-> "none", heap |-> h, addr |-> a]

freezeItemCopy_InPlace(h, itemAddr, item) ==
    Returned([h EXCEPT ![itemAddr] = item], itemAddr)

\* Object.freeze({...existingItem, quantity}): a new object for the item
freezeItemCopy(h, itemAddr, item) == Returned(Append(h, item), Len(h) + 1)

\* Object.freeze({...cart, items: Object.freeze(newItems), updatedAt}): a new
\* array and a new Cart object with the fields of the value c
freezeCartCopy(h, elems, c) ==
    Returned(h \o << [elems |-> elems], [c EXCEPT !.items = Len(h) + 1] >>, Len(h) + 2)

\* cart.items.filter(item => item.itemId !== itemId) on the addresses
RECURSIVE filterElems(_, _, _)
filterElems(h, elems, itemId) ==
    IF elems = <<>> THEN <<>>
    ELSE IF h[Head(elems)].itemId # itemId
    THEN <<Head(elems)>> \o filterElems(h, Tail(elems), itemId)
    ELSE filterElems(h, Tail(elems), itemId)

createCartObject(sessionId, currency, date) ==
    freezeCartCopy(<<>>, <<>>, createCart(sessionId, currency, date).val)

addItemToCartObject(h, a, input, date, fresh) ==
    LET c == valueOf(h, a)
        r == addItemToCart(c, input, date, fresh)
        elems == h[h[a].items].elems
        existingItemIndex == findIndexByProductId(c.items, input.productId)
        updatedItem == freezeItemCopy(h, elems[existingItemIndex],
                                      r.val.items[existingItemIndex])
        withNewItem == Append(h, r.val.items[Len(r.val.items)])
    IN  IF ~IsOk(r) THEN Thrown(h, r.err)
        ELSE IF existingItemIndex >= 1
        THEN freezeCartCopy(updatedItem.heap,
                            [elems EXCEPT ![existingItemIndex] = updatedItem.addr], r.val)
        ELSE freezeCartCopy(withNewItem, Append(elems, Len(withNewItem)), r.val)

removeItemFromCartObject(h, a, itemId, date) ==
    LET r == removeItemFromCart(valueOf(h, a), itemId, date)
    IN  IF ~IsOk(r) THEN Thrown(h, r.err)
        ELSE freezeCartCopy(h, filterElems(h, h[h[a].items].elems, itemId), r.val)

updateItemQuantityObject(h, a, itemId, quantity, date) ==
    LET c == valueOf(h, a)
        r == updateItemQuantity(c, itemId, quantity, date)
        elems == h[h[a].items].elems
        itemIndex == findIndexByItemId(c.items, itemId)
        updatedItem == freezeItemCopy(h, elems[itemIndex], r.val.items[itemIndex])
    IN  IF ~IsOk(r) THEN Thrown(h, r.err)
        ELSE freezeCartCopy(updatedItem.heap,
                            [elems EXCEPT ![itemIndex] = updatedItem.addr], r.val)

\* {...cart, status, updatedAt}: the new Cart object shares the items array
checkoutObject(h, a, date) ==
    LET r == checkout(valueOf(h, a), date)
    IN  IF ~IsOk(r) THEN Thrown(h, r.err)
        ELSE Returned(Append(h, [r.val EXCEPT !.items = h[a].items]), Len(h) + 1)

clearCartObject(h, a, date) ==
    LET r == clearCart(valueOf(h, a), date)
    IN  IF ~IsOk(r) THEN Thrown(h, r.err)
        ELSE freezeCartCopy(h, <<>>, r.val)

ObjectAddInputs ==
    { [BaseInput EXCEPT !.productId = p, !.quantity = q] :
         p \in {IdAA, IdZZ}, q \in {Num(2, F), Num(100, F)} }

ObjectUpdateInputs(c) == [itemId : ItemIdInputs(c), quantity : {Num(3, F), Num(0, F)}]

ApplyObject(op, input, r, fresh, cost) ==
    /\ last = Idle
    /\ IsOk(r) => steps + cost <= MaxSteps
    /\ heap' = r.heap
    /\ ref' = IF IsOk(r) THEN r.addr ELSE ref
    /\ cart' = valueOf(r.heap, IF IsOk(r) THEN r.addr ELSE ref)
    /\ steps' = IF IsOk(r) THEN steps + cost ELSE steps
    /\ uuids' = IF IsOk(r) /\ fresh \in ItemIdsOf(valueOf(r.heap, r.addr))
                THEN uuids + 1 ELSE uuids
    /\ last' = [op |-> op, in |-> input, err |-> r.err,
                before |-> [heap |-> heap, ref |-> ref], out |-> r.addr]
    /\ UNCHANGED <<now, storage, prev, tasks>>

InitH ==
    /\ heap = createCartObject(RawSession, "EUR", 0).heap
    /\ ref = createCartObject(RawSession, "EUR", 0).addr
    /\ cart = createCart(RawSession, "EUR", 0).val
    /\ now = 0
    /\ uuids = 0
    /\ steps = 0
    /\ last = [op |-> "createCart", in |-> <<>>, err |-> "none", before |-> <<>>, out |-> <<>>]
    /\ storage = <<>>
    /\ prev = Idle
    /\ tasks = <<>>

AddItemObject ==
    \E input \in ObjectAddInputs :
        ApplyObject("addItemToCart", input,
                    addItemToCartObject(heap, ref, input, now, uuidv4(uuids + 1)),
                    uuidv4(uuids + 1), 1)

RemoveItemObject ==
    \E itemId \in ItemIdInputs(cart) :
        ApplyObject("removeItemFromCart", [itemId |-> itemId],
                    removeItemFromCartObject(heap, ref, itemId, now), Undefined, 1)

UpdateQuantityObject ==
    \E input \in ObjectUpdateInputs(cart) :
        ApplyObject("updateItemQuantity", input,
                    updateItemQuantityObject(heap, ref, input.itemId, input.quantity, now),
                    Undefined, 1)

ClearObject == ApplyObject("clearCart", <<>>, clearCartObject(heap, ref, now), Undefined, 1)

CheckoutObject == ApplyObject("checkout", <<>>, checkoutObject(heap, ref, now), Undefined, 0)

NextH ==
    \/ AddItemObject
    \/ RemoveItemObject
    \/ UpdateQuantityObject
    \/ ClearObject
    \/ CheckoutObject
    \/ Return
    \/ Tick

SpecH == InitH /\ [][NextH]_vars

----------------------------------------------------------------------------
(* Product and the in-memory product repository *)

MaxProductNameLen == 200

createProduct(input) ==
    IF input.name = <<>> \/ Trim(input.name) = <<>> THEN Err("EmptyName")
    ELSE IF Len(input.name) > MaxProductNameLen THEN Err("NameTooLong")
    ELSE IF input.sku = <<>> \/ Trim(input.sku) = <<>> THEN Err("EmptySku")
    ELSE IF ~IsOk(createProductId(input.id)) THEN createProductId(input.id)
    ELSE IF ~IsOk(createMoney(input.priceInCents,
                  IF input.currency = "undefined" THEN "USD" ELSE input.currency))
    THEN createMoney(input.priceInCents,
                  IF input.currency = "undefined" THEN "USD" ELSE input.currency)
    ELSE Ok([ id          |-> createProductId(input.id).val,
              name        |-> Trim(input.name),
              description |-> Trim(input.description),
              price       |-> createMoney(input.priceInCents,
                                 IF input.currency = "undefined" THEN "USD"
                                 ELSE input.currency).val,
              sku         |-> Trim(input.sku),
              inStock     |-> input.inStock ])

\* three of the sample products: two in stock, one out of stock
SAMPLE_PRODUCTS == <<
    [ id |-> << "p", "r", "o", "d", "-", "0", "0", "2" >>,
      name |-> << "U", "S", "B", "-", "C", " ", "C", "h", "a", "r",
                   "g", "i", "n", "g", " ", "C", "a", "b", "l", "e" >>,
      description |-> << "F", "a", "s", "t", " ", "c", "h", "a", "r",
                          "g", "i", "n", "g", " ", "U", "S", "B", "-",
                          "C", " ", "c", "a", "b", "l", "e", ",", " ",
                          "2", " ", "m", "e", "t", "e", "r", "s" >>,
      priceInCents |-> IntNum(1499), currency |-> "undefined",
      sku |-> << "U", "S", "B", "-", "0", "0", "2" >>, inStock |-> TRUE ],
    [ id |-> << "p", "r", "o", "d", "-", "0", "0", "3" >>,
      name |-> << "L", "a", "p", "t", "o", "p", " ", "S", "t", "a",
                   "n", "d" >>,
      description |-> << "A", "d", "j", "u", "s", "t", "a", "b", "l",
                          "e", " ", "a", "l", "u", "m", "i", "n", "u",
                          "m", " ", "l", "a", "p", "t", "o", "p", " ",
                          "s", "t", "a", "n", "d" >>,
      priceInCents |-> IntNum(4999), currency |-> "undefined",
      sku |-> << "L", "S", "-", "0", "0", "3" >>, inStock |-> TRUE ],
    [ id |-> << "p", "r", "o", "d", "-", "0", "0", "6" >>,
      name |-> << "M", "o", "n", "i", "t", "o", "r", " ", "L", "i",
                   "g", "h", "t", " ", "B", "a", "r" >>,
      description |-> << "L", "E", "D", " ", "m", "o", "n", "i", "t",
                          "o", "r", " ", "l", "i", "g", "h", "t", " ",
                          "b", "a", "r", " ", "w", "i", "t", "h", " ",
                          "a", "d", "j", "u", "s", "t", "a", "b", "l",
                          "e", " ", "b", "r", "i", "g", "h", "t", "n",
                          "e", "s", "s" >>,
      priceInCents |-> IntNum(5999), currency |-> "undefined",
      sku |-> << "M", "L", "B", "-", "0", "0", "6" >>, inStock |-> FALSE ] >>

Prod002 == SAMPLE_PRODUCTS[1].id

Prod003 == SAMPLE_PRODUCTS[2].id

Prod006 == SAMPLE_PRODUCTS[3].id

\* storage.set(product.id.value, product) for each sample product
productStorage ==
    [ k \in { createProduct(SAMPLE_PRODUCTS[i]).val.id.value : i \in 1..Len(SAMPLE_PRODUCTS) } |->
        createProduct(SAMPLE_PRODUCTS[
            CHOOSE i \in 1..Len(SAMPLE_PRODUCTS) :
                createProduct(SAMPLE_PRODUCTS[i]).val.id.value = k]).val ]

NoProduct == [found |-> FALSE]

findById_Trimmed(productId) ==
    IF Trim(productId) \in DOMAIN productStorage
    THEN [found |-> TRUE, product |-> productStorage[Trim(productId)]]
    ELSE NoProduct

\* storage.get(productId) ?? null
findById(productId) ==
    IF productId \in DOMAIN productStorage
    THEN [found |-> TRUE, product |-> productStorage[productId]]
    ELSE NoProduct

----------------------------------------------------------------------------
(* The in-memory cart repository.  st is the Map: a function from the      *)
(* session strings used as keys to the stored carts.  An ISO date string   *)
(* is the pair of the whole seconds and the milliseconds of the reading.   *)

MillisPerSecond == 1000

toISOString_Seconds(date) == [seconds |-> date \div MillisPerSecond, millis |-> 0]

toISOString(date) ==
    [seconds |-> date \div MillisPerSecond, millis |-> date % MillisPerSecond]

\* new Date(isoString)
newDate(iso) == iso.seconds * MillisPerSecond + iso.millis

serializeCart(c) ==
    [ sessionId |-> c.sessionId.value,
      items     |-> [i \in 1..Len(c.items) |->
                       [ itemId            |-> c.items[i].itemId,
                         productId         |-> c.items[i].productId.value,
                         productName       |-> c.items[i].productName,
                         unitPriceAmount   |-> c.items[i].unitPrice.amount,
                         unitPriceCurrency |-> c.items[i].unitPrice.currency,
                         quantity          |-> c.items[i].quantity.value,
                         addedAt           |-> toISOString(c.items[i].addedAt) ]],
      status    |-> c.status,
      createdAt |-> toISOString(c.createdAt),
      updatedAt |-> toISOString(c.updatedAt),
      currency  |-> c.currency ]

deserializeCart(stored) ==
    reconstitute(
        [ sessionId |-> stored.sessionId,
          items     |-> [i \in 1..Len(stored.items) |->
                           [ itemId      |-> stored.items[i].itemId,
                             productId   |-> [value |-> stored.items[i].productId],
                             productName |-> stored.items[i].productName,
                             unitPrice   |-> [amount |-> stored.items[i].unitPriceAmount,
                                              currency |-> stored.items[i].unitPriceCurrency],
                             quantity    |-> [value |-> stored.items[i].quantity],
                             addedAt     |-> newDate(stored.items[i].addedAt) ]],
          status    |-> stored.status,
          createdAt |-> newDate(stored.createdAt),
          updatedAt |-> newDate(stored.updatedAt),
          currency  |-> stored.currency ]).val

\* new Map()
EmptyStorage == [k \in {} |-> <<>>]

NullCart == [found |-> FALSE]

FoundCart(c) == [found |-> TRUE, cart |-> c]

findBySessionId(st, sessionId) ==
    IF sessionId \in DOMAIN st THEN FoundCart(deserializeCart(st[sessionId]))
    ELSE NullCart

save(st, c) ==
    [k \in DOMAIN st \cup {c.sessionId.value} |->
        IF k = c.sessionId.value THEN serializeCart(c) ELSE st[k]]

\* storage.delete(sessionId): the Map without the key, and whether it was there
delete(st, sessionId) ==
    [ storage |-> [k \in DOMAIN st \ {sessionId} |-> st[k]],
      result  |-> sessionId \in DOMAIN st ]

exists(st, sessionId) == sessionId \in DOMAIN st

----------------------------------------------------------------------------
(* The use cases over the two repositories.  One execution runs from its   *)
(* first line to its return or throw without another execution in between  *)
(* (sequential callers), and reads one clock value.  A rejection leaves    *)
(* the Map as the execution found it, because every throw precedes save.   *)
(* prev is the last execution that resolved and changed the Map, once its  *)
(* caller has taken the outcome; steps counts these executions.            *)

Rejected_Cleared(st, e) == [err |-> e, storage |-> EmptyStorage]

Rejected(st, e) == [err |-> e, storage |-> st]

Resolved(st, v) == [err |-> "none", storage |-> st, val |-> v]

executeAddItemToCart(st, request, date, fresh) ==
    LET product == findById(request.productId)
        found == findBySessionId(st, request.sessionId)
        created == createCart(request.sessionId, "USD", date)
        c == IF found.found THEN found.cart ELSE created.val
        updatedCart ==
            addItemToCart(c, [ productId        |-> product.product.id.value,
                               productName      |-> product.product.name,
                               unitPriceInCents |-> IntNum(product.product.price.amount),
                               currency         |-> product.product.price.currency,
                               quantity         |-> request.quantity,
                               itemId           |-> Undefined ], date, fresh)
    IN  IF ~product.found THEN Rejected(st, "ProductNotFoundError")
        ELSE IF ~product.product.inStock THEN Rejected(st, "ProductOutOfStockError")
        ELSE IF ~found.found /\ ~IsOk(created) THEN Rejected(st, created.err)
        ELSE IF ~IsOk(updatedCart) THEN Rejected(st, updatedCart.err)
        ELSE Resolved(save(st, updatedCart.val), updatedCart.val)

itemExists_Always(c, itemId) == TRUE

\* cart.items.some(item => item.itemId === itemId)
itemExists(c, itemId) == \E i \in 1..Len(c.items) : c.items[i].itemId = itemId

executeRemoveItemFromCart(st, request, date) ==
    LET found == findBySessionId(st, request.sessionId)
        updatedCart == removeItemFromCart(found.cart, request.itemId, date)
    IN  IF ~found.found THEN Rejected(st, "CartNotFoundError")
        ELSE IF ~itemExists(found.cart, request.itemId) THEN Rejected(st, "ItemNotFoundError")
        ELSE IF ~IsOk(updatedCart) THEN Rejected(st, updatedCart.err)
        ELSE Resolved(save(st, updatedCart.val), updatedCart.val)

executeUpdateItemQuantity(st, request, date) ==
    LET found == findBySessionId(st, request.sessionId)
        updatedCart ==
            updateItemQuantity(found.cart, request.itemId, request.quantity, date)
    IN  IF ~found.found THEN Rejected(st, "CartNotFoundError")
        ELSE IF ~itemExists(found.cart, request.itemId) THEN Rejected(st, "ItemNotFoundError")
        ELSE IF ~IsOk(updatedCart) THEN Rejected(st, updatedCart.err)
        ELSE Resolved(save(st, updatedCart.val), updatedCart.val)

isCheckedOut_Never(c) == FALSE

\* cart.status === 'checked_out'
isCheckedOut(c) == c.status = "checked_out"

\* the cart is saved before createCheckoutResult is called
executeCheckoutCart(st, request, date, orderId) ==
    LET found == findBySessionId(st, request.sessionId)
        checkedOutCart == checkout(found.cart, date)
        result == createCheckoutResult([ orderId |-> orderId,
                                         cart    |-> checkedOutCart.val,
                                         taxRate |-> request.taxRate ], date)
    IN  IF ~found.found THEN Rejected(st, "CartNotFoundError")
        ELSE IF isCheckedOut(found.cart) THEN Rejected(st, "CartAlreadyCheckedOutError")
        ELSE IF Len(found.cart.items) = 0 THEN Rejected(st, "EmptyCartError")
        ELSE IF ~IsOk(checkedOutCart) THEN Rejected(st, checkedOutCart.err)
        ELSE IF ~IsOk(result) THEN Rejected(save(st, checkedOutCart.val), result.err)
        ELSE Resolved(save(st, checkedOutCart.val), result.val)

executeGetCart(st, request) == Resolved(st, findBySessionId(st, request.sessionId))

SessionS1 == <<"s", "1">>

SessionS2 == <<"s", "2">>

BadSession == <<"s", "!">>

SessionInputs == {SessionS1, RawSession, SessionS2}

NoSuchProduct == <<"n", "o", "n", "e">>

Prod002Padded == <<" ">> \o Prod002

\* the itemIds of the first and the last item of the stored carts, and one
\* that no item has
StoredItemIds(st) ==
    UNION { ItemIdInputs(deserializeCart(st[k])) \ {Custom} : k \in DOMAIN st } \cup {Absent}

AddRequest(sessionId, productId, quantity) ==
    [sessionId |-> sessionId, productId |-> productId, quantity |-> quantity]

\* the products in stock, one of them with two quantities, for a session
\* string with and without padding, and one add for a second session; a
\* product that is out of stock, one that is not in the repository and a
\* padded id, with a valid session and quantity and with invalid ones;
\* an invalid and an overflowing quantity; an invalid session string
AddRequests ==
    { AddRequest(s, Prod002, Num(2, F)) : s \in SessionInputs }
    \cup { AddRequest(s, Prod002, Num(3, F)) : s \in {SessionS1, RawSession} }
    \cup { AddRequest(s, Prod003, Num(2, F)) : s \in {SessionS1, RawSession} }
    \cup { AddRequest(SessionS1, p, Num(2, F)) : p \in {Prod006, NoSuchProduct, Prod002Padded} }
    \cup { AddRequest(BadSession, p, Num(0, F)) : p \in {Prod006, NoSuchProduct} }
    \cup { AddRequest(SessionS1, Prod002, q) : q \in {Num(0, F), Num(98, F)} }
    \cup { AddRequest(BadSession, Prod002, Num(2, F)) }

\* every itemId with the unpadded session; an absent one with the others
ItemRequests(st) ==
    [sessionId : {SessionS1}, itemId : StoredItemIds(st)]
    \cup [sessionId : {RawSession, SessionS2}, itemId : {Absent}]

CheckoutRequests ==
    [sessionId : {SessionS1}, taxRate : {NoRate, Rate(2, 25)}]
    \cup [sessionId : {RawSession, SessionS2}, taxRate : {NoRate}]

ApplyUseCase(op, input, r, returned, cost, recorded) ==
    /\ last = Idle
    /\ IsOk(r) => steps + cost <= MaxSteps
    /\ storage' = r.storage
    /\ cart' = IF IsOk(r) /\ returned.found THEN returned ELSE cart
    /\ steps' = IF IsOk(r) THEN steps + cost ELSE steps
    /\ last' = [op |-> op, in |-> input, err |-> r.err,
                before |-> [storage |-> storage, held |-> cart],
                out |-> IF IsOk(r) THEN r.val ELSE <<>>,
                changed |-> IsOk(r) /\ recorded]
    /\ UNCHANGED <<now, heap, ref, prev, tasks>>

InitU ==
    /\ storage = EmptyStorage
    /\ prev = Idle
    /\ cart = NullCart
    /\ now = 0
    /\ uuids = 0
    /\ steps = 0
    /\ last = Idle
    /\ heap = <<>>
    /\ ref = 0
    /\ tasks = <<>>

AddItemToCart ==
    \E request \in AddRequests :
        LET r == executeAddItemToCart(storage, request, now, uuidv4(uuids + 1))
        IN  /\ ApplyUseCase("AddItemToCart", request, r, FoundCart(r.val), 1, TRUE)
            /\ uuids' = IF IsOk(r) /\ uuidv4(uuids + 1) \in ItemIdsOf(r.val)
                        THEN uuids + 1 ELSE uuids

RemoveItemFromCart ==
    \E request \in ItemRequests(storage) :
        LET r == executeRemoveItemFromCart(storage, request, now)
        IN  /\ ApplyUseCase("RemoveItemFromCart", request, r, FoundCart(r.val), 1, TRUE)
            /\ UNCHANGED uuids

UpdateItemQuantity ==
    \E item \in ItemRequests(storage), quantity \in {Num(3, F), Num(0, F)} :
        LET request == [sessionId |-> item.sessionId, itemId |-> item.itemId,
                        quantity |-> quantity]
            r == executeUpdateItemQuantity(storage, request, now)
        IN  /\ ApplyUseCase("UpdateItemQuantity", request, r, FoundCart(r.val), 1, TRUE)
            /\ UNCHANGED uuids

CheckoutCart ==
    \E request \in CheckoutRequests :
        LET r == executeCheckoutCart(storage, request, now, uuidv4(uuids + 1))
        IN  /\ ApplyUseCase("CheckoutCart", request, r, NullCart, 1, TRUE)
            /\ uuids' = IF IsOk(r) THEN uuids + 1 ELSE uuids

GetCart ==
    \E sessionId \in SessionInputs :
        LET request == [sessionId |-> sessionId]
            r == executeGetCart(storage, request)
        IN  /\ ApplyUseCase("GetCart", request, r, NullCart, 0, FALSE)
            /\ UNCHANGED uuids

\* the repository called directly, as a controller or a test does: the
\* caller saves the Cart it holds, deletes a session, asks whether one exists
RepositorySave ==
    /\ cart.found
    /\ ApplyUseCase("save", [cart |-> cart.cart],
                    Resolved(save(storage, cart.cart), cart.cart), NullCart, 1, TRUE)
    /\ UNCHANGED uuids

RepositoryDelete ==
    \E sessionId \in SessionInputs :
        /\ ApplyUseCase("delete", [sessionId |-> sessionId],
                        Resolved(delete(storage, sessionId).storage,
                                 delete(storage, sessionId).result),
                        NullCart, IF delete(storage, sessionId).result THEN 1 ELSE 0,
                        delete(storage, sessionId).result)
        /\ UNCHANGED uuids

RepositoryExists ==
    \E sessionId \in SessionInputs :
        /\ ApplyUseCase("exists", [sessionId |-> sessionId],
                        Resolved(storage, exists(storage, sessionId)), NullCart, 0, FALSE)
        /\ UNCHANGED uuids

\* the caller takes the outcome; an execution that changed the Map becomes
\* the previous one
ReturnUseCase ==
    /\ last # Idle
    /\ last' = Idle
    /\ prev' = IF last.changed THEN last ELSE prev
    /\ UNCHANGED <<cart, now, uuids, steps, heap, ref, storage, tasks>>

NextU ==
    \/ AddItemToCart
    \/ RemoveItemFromCart
    \/ UpdateItemQuantity
    \/ CheckoutCart
    \/ GetCart
    \/ RepositorySave
    \/ RepositoryDelete
    \/ RepositoryExists
    \/ ReturnUseCase
    \/ Tick

SpecU == InitU /\ [][NextU]_vars

\* the same, on a repository in which a caller has saved, for session s2, a
\* cart that it filled to the item limit with the domain functions
InitF ==
    /\ storage = save(EmptyStorage,
                      [Prefill(MAX_UNIQUE_ITEMS) EXCEPT !.sessionId = [value |-> SessionS2]])
    /\ prev = Idle
    /\ cart = NullCart
    /\ now = 0
    /\ uuids = MAX_UNIQUE_ITEMS
    /\ steps = 0
    /\ last = Idle
    /\ heap = <<>>
    /\ ref = 0
    /\ tasks = <<>>

SpecF == InitF /\ [][NextU]_vars

----------------------------------------------------------------------------
(* The use cases as asynchronous executions.  An execution runs until its  *)
(* next await and is resumed later; between the two, other executions run. *)
(* The repository methods are async functions without awaits of their own, *)
(* so the Map is read or written when the method is called, and the        *)
(* caller goes on in a later step.  tasks holds the executions in the      *)
(* order of their calls; MaxSteps bounds their number.  snap is what the   *)
(* execution read of the Map; the code after the await is the code of the  *)
(* use case above, applied to what was read.  The executions take place   *)
(* within one clock reading: no date is compared anywhere in the code.     *)

\* the part of the Map that findBySessionId(sessionId) reads
loaded(st, sessionId) == [k \in DOMAIN st \cap {sessionId} |-> st[k]]

execute(op, st, request, date, fresh) ==
    CASE op = "AddItemToCart" -> executeAddItemToCart(st, request, date, fresh)
      [] op = "RemoveItemFromCart" -> executeRemoveItemFromCart(st, request, date)
      [] op = "UpdateItemQuantity" -> executeUpdateItemQuantity(st, request, date)
      [] op = "CheckoutCart" -> executeCheckoutCart(st, request, date, fresh)
      [] op = "GetCart" -> executeGetCart(st, request)

\* the execution threw before it called save: the Map it leaves is the one it read
thrownBeforeSave(r, snap) == ~IsOk(r) /\ r.storage = snap

Suspended(op, request, pc, snap) ==
    [op |-> op, in |-> request, pc |-> pc, snap |-> snap, err |-> "none", out |-> <<>>]

\* execute(request) up to its first await
Call(op, request) ==
    /\ Len(tasks) < MaxSteps
    /\ tasks' = Append(tasks,
                   IF op = "AddItemToCart"
                   THEN Suspended(op, request, "product", EmptyStorage)
                   ELSE Suspended(op, request, "cart", loaded(storage, request.sessionId)))
    /\ UNCHANGED <<cart, now, uuids, steps, last, heap, ref, storage, prev>>

\* no stored cart, or one for s1 (the repository after a first
\* AddItemToCart), or one for s2 that a caller filled to the item limit
InitC ==
    /\ \E stored \in {0, 1, MAX_UNIQUE_ITEMS} :
          /\ storage =
                IF stored = 0 THEN EmptyStorage
                ELSE IF stored = 1
                THEN executeAddItemToCart(EmptyStorage,
                         AddRequest(SessionS1, Prod002, Num(2, F)), 0, uuidv4(1)).storage
                ELSE save(EmptyStorage,
                          [Prefill(stored) EXCEPT !.sessionId = [value |-> SessionS2]])
          /\ uuids = stored
    /\ tasks = <<>>
    /\ prev = Idle
    /\ cart = NullCart
    /\ now = 0
    /\ steps = 0
    /\ last = Idle
    /\ heap = <<>>
    /\ ref = 0

CallAddItemToCart ==
    \E request \in
        { AddRequest(SessionS1, p, Num(2, F)) : p \in {Prod002, Prod003, Prod006} }
        \cup { AddRequest(SessionS2, Prod002, Num(98, F)) } :
        Call("AddItemToCart", request)

CallRemoveItemFromCart ==
    \E itemId \in StoredItemIds(storage) :
        Call("RemoveItemFromCart", [sessionId |-> SessionS1, itemId |-> itemId])

CallUpdateItemQuantity ==
    \E itemId \in StoredItemIds(storage) :
        Call("UpdateItemQuantity",
             [sessionId |-> SessionS1, itemId |-> itemId, quantity |-> Num(99, F)])

CallCheckoutCart ==
    \E sessionId \in {SessionS1, SessionS2} :
        Call("CheckoutCart", [sessionId |-> sessionId, taxRate |-> Rate(2, 25)])

CallGetCart ==
    \E sessionId \in {SessionS1, RawSession} : Call("GetCart", [sessionId |-> sessionId])

\* AddItemToCart after await productRepository.findById: the product checks,
\* then findBySessionId is called
AfterProduct ==
    \E i \in 1..Len(tasks) :
        LET t == tasks[i]
            product == findById(t.in.productId)
        IN  /\ t.pc = "product"
            /\ tasks' = [tasks EXCEPT ![i] =
                  IF ~product.found
                  THEN [t EXCEPT !.pc = "rejected", !.err = "ProductNotFoundError"]
                  ELSE IF ~product.product.inStock
                  THEN [t EXCEPT !.pc = "rejected", !.err = "ProductOutOfStockError"]
                  ELSE [t EXCEPT !.pc = "cart", !.snap = loaded(storage, t.in.sessionId)]]
            /\ UNCHANGED <<cart, now, uuids, steps, last, heap, ref, storage, prev>>

\* after await findBySessionId: the checks and the domain call on the cart
\* that was read, then save is called; GetCart returns what was read
AfterCart ==
    \E i \in 1..Len(tasks) :
        LET t == tasks[i]
            fresh == uuidv4(uuids + 1)
            r == execute(t.op, t.snap, t.in, now, fresh)
            checkedOutCart == checkout(findBySessionId(t.snap, t.in.sessionId).cart, now).val
        IN  /\ t.pc = "cart"
            /\ tasks' = [tasks EXCEPT ![i] =
                  IF thrownBeforeSave(r, t.snap)
                  THEN [t EXCEPT !.pc = "rejected", !.err = r.err]
                  ELSE IF t.op = "GetCart" THEN [t EXCEPT !.pc = "resolved", !.out = r.val]
                  ELSE IF t.op = "CheckoutCart"
                  THEN [t EXCEPT !.pc = "save",
                                 !.out = [orderId |-> fresh, cart |-> checkedOutCart]]
                  ELSE [t EXCEPT !.pc = "save", !.out = r.val]]
            /\ storage' =
                  IF thrownBeforeSave(r, t.snap) \/ t.op = "GetCart" THEN storage
                  ELSE IF t.op = "CheckoutCart" THEN save(storage, checkedOutCart)
                  ELSE save(storage, r.val)
            /\ uuids' =
                  IF thrownBeforeSave(r, t.snap) THEN uuids
                  ELSE IF t.op = "CheckoutCart" THEN uuids + 1
                  ELSE IF t.op = "AddItemToCart" /\ fresh \in ItemIdsOf(r.val) THEN uuids + 1
                  ELSE uuids
            /\ UNCHANGED <<cart, now, steps, last, heap, ref, prev>>

\* after await save: CheckoutCart makes its result, the others return the cart
AfterSave ==
    \E i \in 1..Len(tasks) :
        LET t == tasks[i]
            result == createCheckoutResult([ orderId |-> t.out.orderId,
                                             cart    |-> t.out.cart,
                                             taxRate |-> t.in.taxRate ], now)
        IN  /\ t.pc = "save"
            /\ tasks' = [tasks EXCEPT ![i] =
                  IF t.op # "CheckoutCart" THEN [t EXCEPT !.pc = "resolved"]
                  ELSE IF ~IsOk(result) THEN [t EXCEPT !.pc = "rejected", !.err = result.err]
                  ELSE [t EXCEPT !.pc = "resolved", !.out = result.val]]
            /\ UNCHANGED <<cart, now, uuids, steps, last, heap, ref, storage, prev>>

NextC ==
    \/ CallAddItemToCart
    \/ CallRemoveItemFromCart
    \/ CallUpdateItemQuantity
    \/ CallCheckoutCart
    \/ CallGetCart
    \/ AfterProduct
    \/ AfterCart
    \/ AfterSave

SpecC == InitC /\ [][NextC]_vars

----------------------------------------------------------------------------
(* Vocabulary of the properties *)

Mutators == {"addItemToCart", "removeItemFromCart", "updateItemQuantity", "clearCart"}

Called(op) == last.op = op

Failed == last.err # "none"

\* the productId string of the last addItemToCart is the value of some item
InCartBefore == \E i \in 1..Len(last.before.items) :
                    last.before.items[i].productId.value = last.in.productId

----------------------------------------------------------------------------
(* C1: no two items of a reachable cart have the same productId value,     *)
(* for every productId string createProductId accepts.                     *)

C1_NoDuplicateProducts ==
    \A i, j \in 1..Len(cart.items) :
        i # j => cart.items[i].productId.value # cart.items[j].productId.value

----------------------------------------------------------------------------
(* C2: a reachable cart holds at most 20 items; addItemToCart with a       *)
(* productId that no item has, on a cart of 20 items, fails and leaves the *)
(* cart unchanged, and on an active cart the failure is MaxItemsExceeded   *)
(* (a cart that is not active is refused earlier, with CartNotActive).     *)

C2_MaxItems ==
    /\ Len(cart.items) <= MAX_UNIQUE_ITEMS
    /\ (Called("addItemToCart") /\ Len(last.before.items) = MAX_UNIQUE_ITEMS
            /\ ~InCartBefore)
        => /\ Failed
           /\ cart = last.before
           /\ last.before.status = "active" => last.err = "MaxItemsExceeded"

C2_Witness ==
    /\ Called("addItemToCart")
    /\ last.err = "MaxItemsExceeded"
    /\ last.before.status = "active"
    /\ Len(cart.items) = MAX_UNIQUE_ITEMS
    /\ steps >= 1

----------------------------------------------------------------------------
(* C3: on an active cart holding an item for productId P with quantity n,  *)
(* addItemToCart with productId P and a quantity q in 1..99 yields a cart  *)
(* with exactly one item for P, of quantity n + q, when n + q <= 99, and   *)
(* fails with AboveMaximum, the caller's cart unchanged, when n + q > 99.  *)

ItemsFor(c, productId) ==
    { i \in 1..Len(c.items) : c.items[i].productId.value = productId }

C3_MergeExact ==
    (Called("addItemToCart") /\ last.before.status = "active" /\ InCartBefore
        /\ ~last.in.quantity.frac /\ last.in.quantity.whole \in 1..99)
    => LET P == last.in.productId
           n == last.before.items[CHOOSE i \in ItemsFor(last.before, P) : TRUE].quantity.value
           q == last.in.quantity.whole
       IN  IF n + q <= 99
           THEN /\ ~Failed
                /\ Cardinality(ItemsFor(cart, P)) = 1
                /\ \A i \in ItemsFor(cart, P) : cart.items[i].quantity.value = n + q
           ELSE /\ last.err = "AboveMaximum"
                /\ cart = last.before

----------------------------------------------------------------------------
(* C4: a mutator called on a cart that is checked_out or abandoned fails   *)
(* with CartNotActive whatever its arguments, and the cart is unchanged.   *)

C4_StatusGating ==
    (last.op \in Mutators /\ last.before.status # "active")
    => /\ last.err = "CartNotActive"
       /\ cart = last.before

C4_Witness ==
    /\ Called("updateItemQuantity")
    /\ last.before.status = "abandoned"
    /\ last.in.quantity = Num(0, F)
    /\ last.in.itemId = Absent
    /\ last.err = "CartNotActive"
    /\ Len(cart.items) = MAX_UNIQUE_ITEMS

----------------------------------------------------------------------------
(* C5: checkout fails with EmptyCart on an empty active cart, fails with   *)
(* CartAlreadyCheckedOut on a cart that is not active (empty or not), and  *)
(* on a non-empty active cart returns the cart with status checked_out and *)
(* the same items; so a second checkout fails.                             *)

C5_CheckoutPreconditions ==
    Called("checkout")
    => /\ (last.before.status = "active" /\ last.before.items = <<>>)
            => (last.err = "EmptyCart" /\ cart = last.before)
       /\ last.before.status # "active"
            => (last.err = "CartAlreadyCheckedOut" /\ cart = last.before)
       /\ (last.before.status = "active" /\ last.before.items # <<>>)
            => /\ ~Failed
               /\ cart.status = "checked_out"
               /\ cart.items = last.before.items
               /\ cart.sessionId = last.before.sessionId
               /\ cart.currency = last.before.currency

\* a second checkout of a cart that an earlier checkout has checked out
C5_Witness ==
    /\ Called("checkout")
    /\ last.err = "CartAlreadyCheckedOut"
    /\ last.before.status = "checked_out"
    /\ last.before.items # <<>>
    /\ steps >= 1

----------------------------------------------------------------------------
(* C6: from createCart on, the status changes only by the step             *)
(* active -> checked_out that checkout performs; once checked_out the cart *)
(* never becomes active again and its items never change; abandoned is     *)
(* never reached.                                                          *)

C6_StatusOneWay ==
    [][ /\ cart'.status # cart.status
            => /\ cart.status = "active"
               /\ cart'.status = "checked_out"
               /\ last'.op = "checkout"
        /\ cart.status = "checked_out"
            => /\ cart'.status = "checked_out"
               /\ cart'.items = cart.items
        /\ cart'.status # "abandoned" ]_vars

\* a mutator has been tried on the checked-out cart
C6_Witness ==
    /\ cart.status = "checked_out"
    /\ last.op \in Mutators
    /\ last.before.status = "checked_out"

----------------------------------------------------------------------------
(* C7: every item of a reachable cart has an integer quantity in 1..99;    *)
(* addItemToCart and updateItemQuantity called with a quantity below 1,    *)
(* above 99 or non-integer fail and leave the cart unchanged, and when the *)
(* call gets as far as validating the quantity the failure is              *)
(* BelowMinimum, AboveMaximum or NotInteger respectively.                  *)

InvalidQuantity(q) == q.frac \/ q.whole < 1 \/ q.whole > 99

QuantityError(q) ==
    IF q.frac THEN "NotInteger"
    ELSE IF q.whole < 1 THEN "BelowMinimum"
    ELSE "AboveMaximum"

\* the call reaches createQuantity: nothing before it in the code throws
QuantityValidated ==
    /\ last.before.status = "active"
    /\ Called("updateItemQuantity") => last.in.itemId \in ItemIdsOf(last.before)
    /\ Called("addItemToCart") =>
          \/ InCartBefore
          \/ /\ Len(last.before.items) < MAX_UNIQUE_ITEMS
             /\ Trim(last.in.productName) # <<>>
             /\ IsOk(createProductId(last.in.productId))
             /\ ~last.in.unitPriceInCents.frac
             /\ last.in.unitPriceInCents.whole >= 0

C7_QuantityBounds ==
    /\ \A i \in 1..Len(cart.items) : cart.items[i].quantity.value \in 1..99
    /\ (last.op \in {"addItemToCart", "updateItemQuantity"}
            /\ InvalidQuantity(last.in.quantity))
        => /\ Failed
           /\ cart = last.before
           /\ QuantityValidated => last.err = QuantityError(last.in.quantity)

C7_Witness ==
    /\ Called("updateItemQuantity")
    /\ last.in.quantity = Num(100, F)
    /\ last.err = "AboveMaximum"
    /\ cart.items # <<>>
    /\ cart = last.before

----------------------------------------------------------------------------
(* C8: the items of a reachable cart are unique by itemId, also when the   *)
(* caller of addItemToCart supplies the itemId.                            *)

C8_UniqueItemIds ==
    \A i, j \in 1..Len(cart.items) :
        i # j => cart.items[i].itemId # cart.items[j].itemId

----------------------------------------------------------------------------
(* C9: for every reachable cart, of any status, calculateCartTotal returns *)
(* Money in the cart's currency whose amount is the sum over the items of  *)
(* unitPrice.amount * quantity (0 for an empty cart), getTotalItemCount    *)
(* returns the sum of the quantities, and neither fails or changes the     *)
(* cart.                                                                   *)

RECURSIVE LineSum(_, _)
LineSum(items, n) ==
    IF n = 0 THEN 0
    ELSE LineSum(items, n - 1) + items[n].unitPrice.amount * items[n].quantity.value

RECURSIVE QuantitySum(_, _)
QuantitySum(items, n) ==
    IF n = 0 THEN 0 ELSE QuantitySum(items, n - 1) + items[n].quantity.value

C9_Totals ==
    /\ calculateCartTotal(cart) =
          Ok([amount |-> LineSum(cart.items, Len(cart.items)), currency |-> cart.currency])
    /\ getTotalItemCount(cart) = QuantitySum(cart.items, Len(cart.items))
    /\ Called("calculateCartTotal")
        => /\ ~Failed
           /\ cart = last.before
           /\ last.out.total.val.amount = LineSum(cart.items, Len(cart.items))
           /\ last.out.total.val.currency = cart.currency
           /\ last.out.count = QuantitySum(cart.items, Len(cart.items))

\* items priced 1000 and 500 at quantities 2 and 3
C9_Witness ==
    /\ Called("calculateCartTotal")
    /\ Len(cart.items) = 2
    /\ cart.items[1].unitPrice.amount = 1000 /\ cart.items[1].quantity.value = 2
    /\ cart.items[2].unitPrice.amount = 500 /\ cart.items[2].quantity.value = 3
    /\ last.out.total.val.amount = 3500
    /\ last.out.count = 5

----------------------------------------------------------------------------
(* C10: createCheckoutResult on a checked-out cart with tax rate r returns *)
(* subtotal = the sum of the line totals (calculateCartTotal of the cart), *)
(* tax = subtotal * r rounded half-up to an integer, total = subtotal +    *)
(* tax and itemCount = the sum of the quantities (getTotalItemCount); with *)
(* r omitted tax = 0 and total = subtotal.  Subtotal 1000 at r = 0.1 gives *)
(* tax 100, total 1100; subtotal 5000 at r = 0.08 gives 400 and 5400.      *)

\* t is x = amount * num / den rounded half-up: t <= x + 1/2 < t + 1
RoundsHalfUp(t, amount, rate) ==
    /\ 2 * rate.den * t <= 2 * amount * rate.num + rate.den
    /\ 2 * amount * rate.num + rate.den < 2 * rate.den * (t + 1)

C10_CheckoutResult ==
    (Called("createCheckoutResult") /\ last.before.status = "checked_out")
    => LET items == last.before.items
           S == LineSum(items, Len(items))
           r == last.in.taxRate
           res == last.out.val
       IN  /\ ~Failed
           /\ res.subtotal = [amount |-> S, currency |-> last.before.currency]
           /\ res.subtotal = calculateCartTotal(last.before).val
           /\ res.tax.currency = last.before.currency
           /\ res.total.currency = last.before.currency
           /\ r.given => RoundsHalfUp(res.tax.amount, S, r)
           /\ ~r.given => res.tax.amount = 0 /\ res.total.amount = S
           /\ res.total.amount = S + res.tax.amount
           /\ res.itemCount = QuantitySum(items, Len(items))
           /\ res.itemCount = getTotalItemCount(last.before)
           /\ (S = 1000 /\ r = Rate(1, 10))
                => (res.tax.amount = 100 /\ res.total.amount = 1100)
           /\ (S = 5000 /\ r = Rate(2, 25))
                => (res.tax.amount = 400 /\ res.total.amount = 5400)

\* the end-to-end scenario: 2 + 3 of a product at 1000, checkout, r = 0.08
C10_Witness ==
    /\ Called("createCheckoutResult")
    /\ last.in.taxRate = Rate(2, 25)
    /\ cart.status = "checked_out"
    /\ steps >= 1
    /\ ~Failed
    /\ last.out.val.subtotal.amount = 5000
    /\ last.out.val.tax.amount = 400
    /\ last.out.val.total.amount = 5400
    /\ last.out.val.itemCount = 5

----------------------------------------------------------------------------
(* C11: createCheckoutResult called on a cart whose status is not          *)
(* checked_out (active or abandoned, empty or not, with any tax rate)      *)
(* fails with CartNotCheckedOut and produces no result.                    *)

C11_NotCheckedOut ==
    (Called("createCheckoutResult") /\ last.before.status \in {"active", "abandoned"})
    => /\ last.err = "CartNotCheckedOut"
       /\ last.out = Err("CartNotCheckedOut")
       /\ cart = last.before

C11_Witness ==
    /\ Called("createCheckoutResult")
    /\ last.before.status = "abandoned"
    /\ last.before.items # <<>>
    /\ last.in.taxRate = Rate(1, 10)
    /\ last.err = "CartNotCheckedOut"

----------------------------------------------------------------------------
(* C12: the Money operations never yield a negative amount and never mix   *)
(* currencies.  createMoney fails for a negative or non-integer amount;    *)
(* addMoney and subtractMoney fail with CurrencyMismatch when the          *)
(* currencies differ; on operands of one currency subtractMoney(a, b)      *)
(* fails with NegativeResult exactly when a.amount < b.amount and          *)
(* otherwise returns a.amount - b.amount; multiplyMoney fails for a        *)
(* negative or non-integer factor; every Money returned has a non-negative *)
(* integer amount and the currency of the operands.                        *)

OperandCurrency ==
    IF Called("createMoney") THEN last.in.currency
    ELSE IF Called("multiplyMoney") THEN last.in.money.currency
    ELSE last.in.a.currency

C12_MoneyNonNegative ==
    /\ Called("createMoney")
        => /\ (last.in.cents.frac \/ last.in.cents.whole < 0) => last.err = "InvalidAmount"
           /\ ~(last.in.cents.frac \/ last.in.cents.whole < 0)
                => last.out = Ok([amount |-> last.in.cents.whole,
                                  currency |-> last.in.currency])
    /\ (last.op \in {"addMoney", "subtractMoney"} /\ last.in.a.currency # last.in.b.currency)
        => last.err = "CurrencyMismatch"
    /\ (Called("addMoney") /\ last.in.a.currency = last.in.b.currency)
        => last.out = Ok([amount |-> last.in.a.amount + last.in.b.amount,
                          currency |-> last.in.a.currency])
    /\ (Called("subtractMoney") /\ last.in.a.currency = last.in.b.currency)
        => /\ last.err = "NegativeResult" <=> last.in.a.amount < last.in.b.amount
           /\ Failed <=> last.in.a.amount < last.in.b.amount
           /\ ~Failed => last.out.val.amount = last.in.a.amount - last.in.b.amount
    /\ Called("multiplyMoney")
        => /\ (last.in.quantity.frac \/ last.in.quantity.whole < 0)
                => last.err = "InvalidQuantity"
           /\ ~(last.in.quantity.frac \/ last.in.quantity.whole < 0)
                => last.out = Ok([amount |-> last.in.money.amount * last.in.quantity.whole,
                                  currency |-> last.in.money.currency])
    /\ (last.op \in {"createMoney", "addMoney", "subtractMoney", "multiplyMoney"} /\ ~Failed)
        => /\ last.out.val.amount \in Nat
           /\ last.out.val.currency = OperandCurrency

\* subtractMoney of equal amounts returns 0
C12_Witness ==
    /\ Called("subtractMoney")
    /\ last.in.a.amount = 2
    /\ last.in.b.amount = 2
    /\ last.in.a.currency = "EUR"
    /\ last.out = Ok([amount |-> 0, currency |-> "EUR"])

----------------------------------------------------------------------------
(* C13: through any sequence of mutators and checkout the cart keeps the   *)
(* createdAt fixed at construction; every successful addItemToCart,        *)
(* removeItemFromCart, updateItemQuantity, clearCart and checkout sets     *)
(* updatedAt to the clock reading of that call, so that updatedAt never    *)
(* decreases and is never earlier than createdAt; a failed operation       *)
(* changes neither timestamp.                                              *)

C13_Timestamps ==
    /\ cart.createdAt = createCart(RawSession, "EUR", 0).val.createdAt
    /\ cart.createdAt <= cart.updatedAt
    /\ cart.updatedAt <= now
    /\ last.op \in Mutators \cup {"checkout"}
        => /\ cart.createdAt = last.before.createdAt
           /\ cart.updatedAt >= last.before.updatedAt
           /\ ~Failed => cart.updatedAt = now
           /\ Failed => cart.updatedAt = last.before.updatedAt

\* an item added at clock 0, the cart checked out at clock 1
C13_Witness ==
    /\ Called("checkout")
    /\ ~Failed
    /\ last.before.updatedAt = 0
    /\ cart.items # <<>>
    /\ cart.items[1].addedAt = 0
    /\ now = 1
    /\ cart.updatedAt = 1
    /\ cart.createdAt = 0

----------------------------------------------------------------------------
(* C14: no mutator modifies its input.  After any mutator or checkout,     *)
(* returning or throwing, the Cart object passed in, its items array and   *)
(* each of its CartItem objects are what they were (items, quantities,     *)
(* status, timestamps), as is every object allocated before the call; a    *)
(* call that returns, returns a Cart object that did not exist before.     *)

C14_InputUntouched ==
    last.op \in Mutators \cup {"checkout"}
    => LET h0 == last.before.heap
           a0 == last.before.ref
       IN  /\ valueOf(heap, a0) = valueOf(h0, a0)
           /\ heap[a0].items = h0[a0].items
           /\ heap[h0[a0].items].elems = h0[h0[a0].items].elems
           /\ \A a \in 1..Len(h0) : heap[a] = h0[a]
           /\ ~Failed => /\ last.out \notin 1..Len(h0)
                         /\ ref = last.out
                         /\ cart = valueOf(heap, last.out)
           /\ Failed => (heap = h0 /\ ref = a0)

\* a merging add: the input cart still shows quantity 2, the result 4
C14_Witness ==
    /\ Called("addItemToCart")
    /\ ~Failed
    /\ Len(cart.items) = 1
    /\ cart.items[1].quantity.value = 4
    /\ valueOf(heap, last.before.ref).items[1].quantity.value = 2
    /\ ref # last.before.ref

----------------------------------------------------------------------------
(* Vocabulary of the properties of the use cases *)

SavingOps == {"AddItemToCart", "RemoveItemFromCart", "UpdateItemQuantity", "save"}

\* the Cart that the last call saved
SavedCart == IF Called("save") THEN last.in.cart ELSE last.out

StoredBefore(sessionId) == findBySessionId(last.before.storage, sessionId)

\* the sum of the quantities of the items of c for the productId value p
RECURSIVE QuantityOf(_, _, _)
QuantityOf(c, p, n) ==
    IF n = 0 THEN 0
    ELSE QuantityOf(c, p, n - 1)
         + (IF c.items[n].productId.value = p THEN c.items[n].quantity.value ELSE 0)

----------------------------------------------------------------------------
(* C15: save(cart) followed by findBySessionId(cart.sessionId.value)       *)
(* returns a cart equal to the saved one in every field (sessionId,        *)
(* status, currency, createdAt, updatedAt and, item by item in order,      *)
(* itemId, productId, productName, unitPrice, quantity, addedAt); a later  *)
(* save for the same session replaces the earlier one and touches no other *)
(* session; for a session that is not in the repository (never saved, or   *)
(* deleted) findBySessionId returns null, exists false and delete false.   *)

C15_SaveFindRoundTrip ==
    /\ (last.op \in SavingOps /\ ~Failed)
        => /\ findBySessionId(storage, SavedCart.sessionId.value) = FoundCart(SavedCart)
           /\ DOMAIN storage = DOMAIN last.before.storage \cup {SavedCart.sessionId.value}
           /\ \A k \in DOMAIN storage \ {SavedCart.sessionId.value} :
                  storage[k] = last.before.storage[k]
    /\ \A k \in DOMAIN storage :
          /\ deserializeCart(storage[k]).sessionId.value = k
          /\ serializeCart(deserializeCart(storage[k])) = storage[k]
    /\ (Called("GetCart") /\ last.in.sessionId \notin DOMAIN last.before.storage)
        => last.out = NullCart
    /\ (Called("exists") /\ last.in.sessionId \notin DOMAIN last.before.storage)
        => last.out = FALSE
    /\ (Called("delete") /\ last.in.sessionId \notin DOMAIN last.before.storage)
        => (last.out = FALSE /\ storage = last.before.storage)
    /\ (Called("delete") /\ last.in.sessionId \in DOMAIN last.before.storage)
        => /\ last.out = TRUE
           /\ findBySessionId(storage, last.in.sessionId) = NullCart
           /\ ~exists(storage, last.in.sessionId)
    /\ (prev.op = "delete" /\ last.op \in {"GetCart", "exists", "delete"}
            /\ last.in.sessionId = prev.in.sessionId)
        => last.out = (IF Called("GetCart") THEN NullCart ELSE FALSE)

\* a second add at clock 1 replaces the cart saved at clock 0
C15_Witness ==
    /\ Called("AddItemToCart")
    /\ ~Failed
    /\ prev.op = "AddItemToCart"
    /\ SessionS1 \in DOMAIN last.before.storage
    /\ last.in.sessionId = SessionS1
    /\ Len(last.out.items) = 2
    /\ last.out.createdAt = 0
    /\ last.out.updatedAt = 1
    /\ last.out.items[2].addedAt = 1
    /\ findBySessionId(storage, SessionS1) = FoundCart(last.out)
    /\ storage[SessionS1] # last.before.storage[SessionS1]

----------------------------------------------------------------------------
(* C16: AddItemToCart.execute adds to the cart of the session when there   *)
(* is one: after two successive successful executions with the same        *)
(* sessionId string (any string createSessionId accepts) the cart returned *)
(* holds, for every product, the quantity the first execution returned     *)
(* plus what the second added, in one item per product, and the cart       *)
(* stored equals the cart returned.                                        *)

C16_GetOrCreate ==
    (Called("AddItemToCart") /\ ~Failed /\ prev.op = "AddItemToCart"
        /\ prev.in.sessionId = last.in.sessionId)
    => /\ findBySessionId(storage, last.out.sessionId.value) = FoundCart(last.out)
       /\ \A p \in {Prod002, Prod003} :
             /\ QuantityOf(last.out, p, Len(last.out.items))
                   = QuantityOf(prev.out, p, Len(prev.out.items))
                     + (IF p = last.in.productId THEN last.in.quantity.whole ELSE 0)
             /\ Cardinality(ItemsFor(last.out, p)) <= 1

----------------------------------------------------------------------------
(* C17: AddItemToCart.execute rejects with ProductNotFoundError when the   *)
(* product repository has no product under the requested id and with       *)
(* ProductOutOfStockError when the product is there with inStock false;    *)
(* both come before the cart is loaded or created, whatever the session    *)
(* string and the quantity are, and the cart repository is unchanged.      *)

C17_ProductChecks ==
    Called("AddItemToCart")
    => /\ last.in.productId \notin DOMAIN productStorage
            => (last.err = "ProductNotFoundError" /\ storage = last.before.storage)
       /\ (last.in.productId \in DOMAIN productStorage
                /\ ~productStorage[last.in.productId].inStock)
            => (last.err = "ProductOutOfStockError" /\ storage = last.before.storage)
       /\ last.err \in {"ProductNotFoundError", "ProductOutOfStockError"}
            => (\/ last.in.productId \notin DOMAIN productStorage
                \/ ~productStorage[last.in.productId].inStock)

\* an id that only trimming would find, for a session that has no cart
C17_Witness ==
    /\ Called("AddItemToCart")
    /\ last.in.productId = Prod002Padded
    /\ last.in.sessionId = SessionS1
    /\ last.err = "ProductNotFoundError"
    /\ storage = EmptyStorage

----------------------------------------------------------------------------
(* C18: CheckoutCart executed on a stored active cart with items resolves  *)
(* with a CheckoutResult and leaves the cart stored with status            *)
(* checked_out and the same items; a CheckoutCart execution for that       *)
(* session after it, with no other change of the repository in between,    *)
(* rejects with CartAlreadyCheckedOutError and leaves the stored cart      *)
(* unchanged, as does every CheckoutCart of a stored checked_out cart.     *)

C18_CheckoutOnce ==
    Called("CheckoutCart")
    => LET k == last.in.sessionId
           before == StoredBefore(k)
           after == findBySessionId(storage, k)
       IN  /\ (before.found /\ before.cart.status = "active" /\ before.cart.items # <<>>)
                => /\ ~Failed
                   /\ last.out.sessionId = k
                   /\ Len(last.out.items) = Len(before.cart.items)
                   /\ after.found
                   /\ after.cart = [before.cart EXCEPT !.status = "checked_out",
                                                       !.updatedAt = now]
                   /\ \A j \in DOMAIN storage \ {k} : storage[j] = last.before.storage[j]
           /\ (prev.op = "CheckoutCart" /\ prev.in.sessionId = k)
                => (last.err = "CartAlreadyCheckedOutError" /\ storage = last.before.storage)
           /\ (before.found /\ before.cart.status = "checked_out")
                => (last.err = "CartAlreadyCheckedOutError" /\ storage = last.before.storage)

C18_Witness ==
    /\ Called("CheckoutCart")
    /\ prev.op = "CheckoutCart"
    /\ prev.in.sessionId = last.in.sessionId
    /\ last.err = "CartAlreadyCheckedOutError"
    /\ findBySessionId(storage, last.in.sessionId).cart.status = "checked_out"
    /\ findBySessionId(storage, last.in.sessionId).cart.items # <<>>

----------------------------------------------------------------------------
(* C19: RemoveItemFromCart, UpdateItemQuantity and CheckoutCart reject     *)
(* with CartNotFoundError when no cart is stored for the session, and none *)
(* creates one; RemoveItemFromCart and UpdateItemQuantity reject with      *)
(* ItemNotFoundError when the stored cart, of any status, has no item with *)
(* the given itemId; CheckoutCart rejects with EmptyCartError when the     *)
(* stored active cart has no items; a resolving RemoveItemFromCart stores  *)
(* the cart without that item.                                             *)

C19_NotFound ==
    /\ (last.op \in {"RemoveItemFromCart", "UpdateItemQuantity", "CheckoutCart"}
            /\ ~StoredBefore(last.in.sessionId).found)
        => (last.err = "CartNotFoundError" /\ storage = last.before.storage)
    /\ (last.op \in {"RemoveItemFromCart", "UpdateItemQuantity"}
            /\ StoredBefore(last.in.sessionId).found
            /\ last.in.itemId \notin ItemIdsOf(StoredBefore(last.in.sessionId).cart))
        => (last.err = "ItemNotFoundError" /\ storage = last.before.storage)
    /\ (Called("CheckoutCart")
            /\ StoredBefore(last.in.sessionId).found
            /\ StoredBefore(last.in.sessionId).cart.status = "active"
            /\ StoredBefore(last.in.sessionId).cart.items = <<>>)
        => (last.err = "EmptyCartError" /\ storage = last.before.storage)
    /\ (Called("RemoveItemFromCart") /\ ~Failed)
        => LET before == StoredBefore(last.in.sessionId).cart
               after == findBySessionId(storage, last.in.sessionId)
           IN  /\ after = FoundCart(last.out)
               /\ last.in.itemId \in ItemIdsOf(before)
               /\ last.in.itemId \notin ItemIdsOf(after.cart)
               /\ after.cart.items = filterOutItemId(before.items, last.in.itemId)
               /\ Len(after.cart.items) = Len(before.items) - 1

\* an absent item asked of a cart that is checked out
C19_Witness ==
    /\ Called("RemoveItemFromCart")
    /\ last.in.itemId = Absent
    /\ StoredBefore(last.in.sessionId).found
    /\ StoredBefore(last.in.sessionId).cart.status = "checked_out"
    /\ last.err = "ItemNotFoundError"

----------------------------------------------------------------------------
(* C20: every item of a cart reachable from createCart by the mutators has *)
(* the cart's currency as the currency of its unitPrice, whatever currency *)
(* the addItemToCart input names, so calculateCartTotal and                *)
(* createCheckoutResult never fail with CurrencyMismatch.                  *)

C20_ItemCurrency ==
    /\ \A i \in 1..Len(cart.items) : cart.items[i].unitPrice.currency = cart.currency
    /\ calculateCartTotal(cart).err # "CurrencyMismatch"
    /\ last.op \in {"calculateCartTotal", "createCheckoutResult"}
        => last.err # "CurrencyMismatch"
    /\ (Called("createCheckoutResult") /\ ~Failed)
        => /\ last.out.val.subtotal.currency = cart.currency
           /\ last.out.val.total.currency = cart.currency

\* an add that names GBP into a cart in EUR
C20_Witness ==
    /\ Called("addItemToCart")
    /\ ~Failed
    /\ last.in.currency = "GBP"
    /\ cart.currency = "EUR"
    /\ cart.items[Len(cart.items)].productId.value = last.in.productId
    /\ cart.items[Len(cart.items)].unitPrice.currency = "EUR"
    /\ calculateCartTotal(cart).val.currency = "EUR"

----------------------------------------------------------------------------
(* C21: when addItemToCart merges into an existing item (the productId     *)
(* string of the input is the value of an item of the active cart), the    *)
(* item keeps its itemId, productId, productName, unitPrice and addedAt    *)
(* and its position, every other item is unchanged, and the quantity is    *)
(* the old one plus the added one; the result is a function of the cart,   *)
(* the productId and the quantity alone, so the name, unit price and       *)
(* itemId of the merging input have no effect.                             *)

\* the first item of the cart before the call that has the input's productId
MergedIndex == findIndexByProductId(last.before.items, last.in.productId)

C21_MergePreserves ==
    (Called("addItemToCart") /\ ~Failed /\ InCartBefore)
    => LET i == MergedIndex
           old == last.before.items[i]
       IN  /\ Len(cart.items) = Len(last.before.items)
           /\ \A j \in 1..Len(cart.items) : j # i => cart.items[j] = last.before.items[j]
           /\ cart.items[i].itemId = old.itemId
           /\ cart.items[i].productId = old.productId
           /\ cart.items[i].productName = old.productName
           /\ cart.items[i].unitPrice = old.unitPrice
           /\ cart.items[i].addedAt = old.addedAt
           /\ cart.items[i].quantity.value = old.quantity.value + last.in.quantity.whole
           /\ DOMAIN cart.items[i] = DOMAIN old
           /\ cart = [last.before EXCEPT !.items = cart.items, !.updatedAt = now]

\* a second add at another price and a later time: the snapshot of the first stays
C21_Witness ==
    /\ Called("addItemToCart")
    /\ ~Failed
    /\ InCartBefore
    /\ last.in.unitPriceInCents = IntNum(500)
    /\ cart.items[MergedIndex].unitPrice.amount = 1000
    /\ cart.items[MergedIndex].quantity.value = 4
    /\ cart.items[MergedIndex].addedAt = 0
    /\ now = 1

\* a merging add whose name createCartItem would refuse, with a caller's itemId
C21_WitnessIgnoredFields ==
    /\ Called("addItemToCart")
    /\ ~Failed
    /\ InCartBefore
    /\ Trim(last.in.productName) = <<>>

----------------------------------------------------------------------------
(* C22: removeItemFromCart on an active cart fails with ItemNotFound and   *)
(* leaves the cart unchanged when no item has the given itemId; otherwise  *)
(* it returns the cart whose items are the input's items with exactly one  *)
(* item, one with that itemId, removed: one item fewer, the others         *)
(* unchanged and in their order.                                           *)

\* the sequence s without its i-th element
WithoutIndex(s, i) == SubSeq(s, 1, i - 1) \o SubSeq(s, i + 1, Len(s))

C22_RemoveExactlyOne ==
    (Called("removeItemFromCart") /\ last.before.status = "active")
    => IF last.in.itemId \notin ItemIdsOf(last.before)
       THEN /\ last.err = "ItemNotFound"
            /\ cart = last.before
       ELSE /\ ~Failed
            /\ Len(cart.items) = Len(last.before.items) - 1
            /\ \E i \in 1..Len(last.before.items) :
                  /\ last.before.items[i].itemId = last.in.itemId
                  /\ cart.items = WithoutIndex(last.before.items, i)
            /\ cart = [last.before EXCEPT !.items = cart.items, !.updatedAt = now]

----------------------------------------------------------------------------
(* C23: updateItemQuantity on an active cart, with the itemId of an item   *)
(* and a quantity in 1..99, replaces the quantity of that item in place:   *)
(* the item keeps its index, itemId, productId, productName, unitPrice and *)
(* addedAt, the number of items is the same and every other item is        *)
(* unchanged; with an itemId that no item has it fails with ItemNotFound,  *)
(* whatever the quantity is, and the cart is unchanged.                    *)

UpdatedIndex == findIndexByItemId(last.before.items, last.in.itemId)

C23_UpdateInPlace ==
    (Called("updateItemQuantity") /\ last.before.status = "active")
    => /\ last.in.itemId \notin ItemIdsOf(last.before)
            => (last.err = "ItemNotFound" /\ cart = last.before)
       /\ (last.in.itemId \in ItemIdsOf(last.before) /\ ~InvalidQuantity(last.in.quantity))
            => LET i == UpdatedIndex
                   old == last.before.items[i]
               IN  /\ ~Failed
                   /\ Len(cart.items) = Len(last.before.items)
                   /\ \A j \in 1..Len(cart.items) :
                         j # i => cart.items[j] = last.before.items[j]
                   /\ cart.items[i] =
                         [old EXCEPT !.quantity = [value |-> last.in.quantity.whole]]
                   /\ cart.items[i].itemId = last.in.itemId
                   /\ cart = [last.before EXCEPT !.items = cart.items, !.updatedAt = now]

\* the quantity of the only item set from 2 to 98
C23_Witness ==
    /\ Called("updateItemQuantity")
    /\ ~Failed
    /\ last.in.quantity = Num(98, F)
    /\ last.before.items[UpdatedIndex].quantity.value = 2
    /\ cart.items[UpdatedIndex].quantity.value = 98
    /\ cart.items[UpdatedIndex].addedAt = 0
    /\ now = 1

\* an absent itemId with a quantity that createQuantity refuses
C23_WitnessAbsent ==
    /\ Called("updateItemQuantity")
    /\ last.before.status = "active"
    /\ last.before.items # <<>>
    /\ last.in.itemId = Absent
    /\ last.in.quantity = Num(0, F)
    /\ last.err = "ItemNotFound"

----------------------------------------------------------------------------
(* C24: in addItemToCart the duplicate-product check precedes the size     *)
(* check.  On an active cart of 20 items, adding a productId that is in    *)
(* the cart (with a quantity in 1..99 that keeps the sum within 99) merges *)
(* and succeeds, the cart still holding 20 items; only a productId that is *)
(* not in the cart fails with MaxItemsExceeded; an add that makes a new    *)
(* item appends it at the end of the sequence.  The productId of an input  *)
(* is the ProductId that createProductId makes of the string.              *)

\* the input's ProductId is the productId of an item of the cart before
ProductInCartBefore == ItemsFor(last.before, Trim(last.in.productId)) # {}

C24_DuplicateBeforeSize ==
    (Called("addItemToCart") /\ last.before.status = "active")
    => LET P == Trim(last.in.productId)
           q == last.in.quantity
       IN  /\ (Len(last.before.items) = MAX_UNIQUE_ITEMS /\ ProductInCartBefore
                  /\ ~InvalidQuantity(q)
                  /\ \A i \in ItemsFor(last.before, P) :
                        last.before.items[i].quantity.value + q.whole <= MAX_QUANTITY)
                => /\ ~Failed
                   /\ Len(cart.items) = MAX_UNIQUE_ITEMS
                   /\ \E i \in ItemsFor(last.before, P) :
                         cart.items[i].quantity.value =
                            last.before.items[i].quantity.value + q.whole
           /\ last.err = "MaxItemsExceeded"
                => (Len(last.before.items) = MAX_UNIQUE_ITEMS /\ ~ProductInCartBefore)
           /\ (~Failed /\ Len(cart.items) # Len(last.before.items))
                => /\ cart.items = Append(last.before.items, cart.items[Len(cart.items)])
                   /\ cart.items[Len(cart.items)].productId.value = P

----------------------------------------------------------------------------
(* C28: a use-case execution that rejects never writes.  Whenever          *)
(* AddItemToCart, RemoveItemFromCart, UpdateItemQuantity or CheckoutCart   *)
(* rejects, for whatever reason, the repository holds exactly what it held *)
(* before the execution; a rejected AddItemToCart for a session without a  *)
(* cart leaves no cart stored for it.                                      *)

UseCases == {"AddItemToCart", "RemoveItemFromCart", "UpdateItemQuantity", "CheckoutCart"}

C28_RejectedNeverWrites ==
    (last.op \in UseCases /\ Failed)
    => /\ storage = last.before.storage
       /\ \A k \in DOMAIN storage : k \in DOMAIN last.before.storage
       /\ last.out = <<>>

\* a 21st product for the full cart of s2, after an add for s1 was stored
C28_Witness ==
    /\ Called("AddItemToCart")
    /\ last.err = "MaxItemsExceeded"
    /\ last.in.sessionId = SessionS2
    /\ prev.op = "AddItemToCart"
    /\ SessionS1 \in DOMAIN storage
    /\ Len(storage[SessionS2].items) = MAX_UNIQUE_ITEMS
    /\ storage = last.before.storage

\* a quantity of 0 for a session without a cart: no empty cart is stored
C28_WitnessNoCart ==
    /\ Called("AddItemToCart")
    /\ last.err = "BelowMinimum"
    /\ last.in.sessionId = SessionS1
    /\ SessionS1 \notin DOMAIN storage

----------------------------------------------------------------------------
(* C29: every Money of a CheckoutResult is a valid Money.  For every       *)
(* checked-out cart and every taxRate with which createCheckoutResult      *)
(* returns, subtotal, tax and total have non-negative integer amounts in   *)
(* the cart's currency, and total >= subtotal.                             *)

C29_ResultMoneyValid ==
    (Called("createCheckoutResult") /\ ~Failed)
    => LET res == last.out.val
       IN  /\ \A m \in {res.subtotal, res.tax, res.total} :
                 /\ m.amount \in Nat
                 /\ m.currency = last.before.currency
                 /\ createMoney(IntNum(m.amount), m.currency) = Ok(m)
           /\ res.total.amount >= res.subtotal.amount

----------------------------------------------------------------------------
(* Vocabulary of the properties of the asynchronous executions *)

Resolved_(i, op) == tasks[i].op = op /\ tasks[i].pc = "resolved"

\* the executions that have called save for the session string s
Writers(s) ==
    { i \in 1..Len(tasks) : /\ tasks[i].op # "GetCart"
                            /\ tasks[i].in.sessionId = s
                            /\ tasks[i].pc \in {"save", "resolved"} }

\* the quantity of product p in the cart that execution i read
ReadQuantity(i, p) ==
    IF tasks[i].snap = EmptyStorage THEN 0
    ELSE QuantityOf(findBySessionId(tasks[i].snap, tasks[i].in.sessionId).cart, p,
                    Len(findBySessionId(tasks[i].snap, tasks[i].in.sessionId).cart.items))

\* the quantity of product p that the AddItemToCart execution i adds
AddedQuantity(i, p) == IF tasks[i].in.productId = p THEN tasks[i].in.quantity.whole ELSE 0

StoredQuantity(s, p) ==
    QuantityOf(findBySessionId(storage, s).cart, p,
               Len(findBySessionId(storage, s).cart.items))

----------------------------------------------------------------------------
(* C25: a session is checked out at most once.  Of two CheckoutCart        *)
(* executions for the same session, however their steps interleave, at     *)
(* most one resolves with a CheckoutResult, so that one cart never         *)
(* produces two orders.                                                    *)

C25_CheckoutAtMostOnce ==
    \A i, j \in 1..Len(tasks) :
        (i < j /\ Resolved_(i, "CheckoutCart") /\ tasks[j].op = "CheckoutCart"
            /\ tasks[i].in.sessionId = tasks[j].in.sessionId)
        => tasks[j].pc # "resolved"

----------------------------------------------------------------------------
(* C26: once the repository holds a cart with status checked_out for a     *)
(* session, every later state of the repository holds a checked_out cart   *)
(* for it, with the same items, under every interleaving of AddItemToCart, *)
(* RemoveItemFromCart, UpdateItemQuantity and CheckoutCart executions.     *)

C26_CheckedOutIsFinal ==
    [][ \A k \in DOMAIN storage :
           storage[k].status = "checked_out"
           => /\ k \in DOMAIN storage'
              /\ storage'[k].status = "checked_out"
              /\ storage'[k].items = storage[k].items ]_vars

----------------------------------------------------------------------------
(* C27: no successful update is lost.  When two AddItemToCart executions   *)
(* for one session have both resolved, and no other execution has saved a  *)
(* cart for the session, the stored cart holds of every product the        *)
(* quantity that was there before the two plus what each of them added     *)
(* (for two different products: both items).                               *)

C27_NoLostUpdate ==
    \A i, j \in 1..Len(tasks) :
        (i < j /\ Resolved_(i, "AddItemToCart") /\ Resolved_(j, "AddItemToCart")
            /\ tasks[i].in.sessionId = tasks[j].in.sessionId
            /\ Writers(tasks[i].in.sessionId) = {i, j})
        => \A p \in {Prod002, Prod003} :
              StoredQuantity(tasks[i].in.sessionId, p)
                 = (IF ReadQuantity(i, p) < ReadQuantity(j, p)
                    THEN ReadQuantity(i, p) ELSE ReadQuantity(j, p))
                   + AddedQuantity(i, p) + AddedQuantity(j, p)

----------------------------------------------------------------------------
(* C30: under every interleaving of AddItemToCart, RemoveItemFromCart,     *)
(* UpdateItemQuantity, CheckoutCart and GetCart executions, every cart     *)
(* stored in the repository has at most 20 items, pairwise distinct        *)
(* productIds, every quantity in 1..99, every unit price in the cart's     *)
(* currency, and status checked_out only with items; no step of a GetCart  *)
(* execution changes the repository, and GetCart returns null for a        *)
(* session string under which no cart is stored when it reads.             *)

AggregateInvariants(c) ==
    /\ Len(c.items) <= MAX_UNIQUE_ITEMS
    /\ \A i, j \in 1..Len(c.items) :
          i # j => c.items[i].productId.value # c.items[j].productId.value
    /\ \A i \in 1..Len(c.items) :
          /\ c.items[i].quantity.value \in MIN_QUANTITY..MAX_QUANTITY
          /\ c.items[i].unitPrice.currency = c.currency
    /\ c.status = "checked_out" => c.items # <<>>

\* only GetCart executions are called or resumed in the step
GetCartStep ==
    /\ tasks' # tasks
    /\ \A i \in 1..Len(tasks') :
          (i > Len(tasks) \/ tasks'[i] # tasks[i]) => tasks'[i].op = "GetCart"

C30_StoredCartsValid ==
    /\ [](\A k \in DOMAIN storage : AggregateInvariants(deserializeCart(storage[k])))
    /\ [](\A i \in 1..Len(tasks) :
            Resolved_(i, "GetCart")
            => /\ tasks[i].out = findBySessionId(tasks[i].snap, tasks[i].in.sessionId)
               /\ tasks[i].snap = EmptyStorage => tasks[i].out = NullCart)
    /\ [][ /\ GetCartStep => storage' = storage
           /\ \A i \in 1..Len(tasks') :
                 (i > Len(tasks) /\ tasks'[i].op = "GetCart"
                     /\ tasks'[i].in.sessionId \notin DOMAIN storage)
                 => tasks'[i].snap = EmptyStorage ]_vars

\* an add and a checkout that read the same cart have both saved, and a
\* GetCart has returned null meanwhile or before
C30_Witness ==
    \E i, j \in 1..Len(tasks) :
        /\ Resolved_(i, "AddItemToCart")
        /\ Resolved_(j, "CheckoutCart")
        /\ tasks[i].snap = tasks[j].snap
        /\ tasks[i].snap # EmptyStorage
        /\ SessionS1 \in DOMAIN storage

====
